---- MODULE Spec2Model ----
\* Playback engine (AudioEngine.ts), the editor store (zustand) and the page
\* handlers (page.tsx) of the piano-roll editor, as one state machine.
\* Time is counted in units of 0.1 s, so the end-event epsilon 0.1 is 1 unit.
EXTENDS Integers, Sequences, FiniteSets, Bags, TLC

VARIABLES eng, store, plays, loads, userActive, ui

vars == <<eng, store, plays, loads, userActive, ui>>

----------------------------------------------------------------------------
\* Bounds of the model

\* Schedules made on the transport, those of pending play handlers included
MaxPlays == 2
\* Asynchronous calls in flight at once: play handlers awaiting ensureStarted
\* and track loads
MaxInFlight == 2
\* Times the frame-loop effects of the page are set up
MaxMounts == 2

\* Program constants
NoId == 0
Epsilon == 1
DrumChannel == 9

Max(a, b) == IF a > b THEN a ELSE b

RECURSIVE SetMax(_)
SetMax(S) ==
  IF S = {} THEN 0
  ELSE LET x == CHOOSE y \in S : TRUE IN Max(x, SetMax(S \ {x}))

----------------------------------------------------------------------------
\* Track data: the palette, MIDI files, parseMidiToTracks, loadAllSavedTracks

Min(a, b) == IF a < b THEN a ELSE b

\* MIDI note numbers, and the note name of a number: pitch class and octave
\* ("C4" is number 60)
MidiNumbers == 0..127

toNote(m) == [pc |-> m % 12, octave |-> (m \div 12) - 1]

toMidi(nn) == (nn.octave + 1) * 12 + nn.pc

\* A note of a track; velocities are in hundredths
Pitched(t, d, m) ==
  [time |-> t, duration |-> d, midi |-> m, name |-> toNote(m), velocity |-> 80]

Note(t, d) == Pitched(t, d, 60)

\* A percussion note: a snare hit
Hit(t, d) == Pitched(t, d, 38)

TRACK_COLORS ==
  << "#6366F1", "#F59E0B", "#10B981", "#EF4444", "#8B5CF6", "#EC4899",
     "#14B8A6", "#F97316", "#3B82F6", "#84CC16", "#06B6D4", "#A855F7",
     "#E11D48", "#22D3EE", "#FBBF24", "#4ADE80" >>

\* Variant: an index past the palette takes the last color
PaletteColorClamped(i) ==
  TRACK_COLORS[(IF i < Len(TRACK_COLORS) THEN i ELSE Len(TRACK_COLORS) - 1) + 1]

\* TRACK_COLORS[i % TRACK_COLORS.length], for a 0-based i
PaletteColor(i) == TRACK_COLORS[(i % Len(TRACK_COLORS)) + 1]

\* A track of a parsed MIDI file: its name may be empty
MidiTrack(nm, ch, ns) == [name |-> nm, channel |-> ch, notes |-> ns]

\* A parsed MIDI file: the tempos (in tenths of a beat per minute) and time
\* signatures of its header, and its tracks
Midi(tempos, sigs, mtracks) ==
  [tempos |-> tempos, timeSignatures |-> sigs, tracks |-> mtracks]

\* An entry of the saved-track listing with the MIDI file its url serves
Entry(fn, midi) == [filename |-> fn, midi |-> midi]

\* Math.round on a number of tenths
Round10(x) == (x + 5) \div 10

DefaultBpm == 120

DefaultTimeSignature == <<4, 4>>

\* entry.filename.replace(/\.mid$/i, "").replace(/_/g, " ") on the file names
\* of the listings below
BaseName(fn) ==
  CASE fn = "take.mid" -> "take"
    [] fn = "lead.MID" -> "lead"
    [] fn = "drum_kit.mid" -> "drum kit"
    [] OTHER -> fn

InstrumentName(ch) ==
  IF ch = DrumChannel THEN "Percussion" ELSE "Acoustic Grand Piano"

\* The TrackState parseMidiToTracks builds for the MIDI track at 0-based i
ParsedTrack(mt, i) ==
  [index |-> i,
   name |-> IF mt.name # "" THEN mt.name ELSE InstrumentName(mt.channel),
   filename |-> "",
   channel |-> mt.channel, notes |-> mt.notes, color |-> PaletteColor(i),
   muted |-> FALSE, visible |-> TRUE]

\* Positions of the MIDI tracks that have notes, in file order
RECURSIVE KeptFrom(_, _)
KeptFrom(mtracks, i) ==
  IF i > Len(mtracks) THEN <<>>
  ELSE (IF mtracks[i].notes = <<>> THEN <<>> ELSE <<i>>) \o KeptFrom(mtracks, i + 1)

\* Variant: the filtered tracks keep the index and color of their file position
NoReindex(tracks) == tracks

\* tracks.forEach((t, i) => { t.index = i; t.color = TRACK_COLORS[i % 16] })
Reindex(tracks) ==
  [k \in DOMAIN tracks |->
     [tracks[k] EXCEPT !.index = k - 1, !.color = PaletteColor(k - 1)]]

MidiDuration(mtracks) ==
  SetMax(UNION { { mtracks[i].notes[n].time + mtracks[i].notes[n].duration :
                     n \in DOMAIN mtracks[i].notes } : i \in DOMAIN mtracks })

parseMidiToTracks(midi) ==
  LET kept == KeptFrom(midi.tracks, 1)
  IN [tracks |-> Reindex([k \in DOMAIN kept |->
                            ParsedTrack(midi.tracks[kept[k]], kept[k] - 1)]),
      duration |-> MidiDuration(midi.tracks),
      bpm |-> IF Len(midi.tempos) > 0 THEN Round10(midi.tempos[1]) ELSE DefaultBpm,
      timeSignature |-> IF Len(midi.timeSignatures) > 0
                        THEN midi.timeSignatures[1] ELSE DefaultTimeSignature]

\* The loop of loadAllSavedTracks over the listing from entry k on
RECURSIVE StackFrom(_, _, _)
StackFrom(entries, k, acc) ==
  IF k > Len(entries) THEN acc
  ELSE LET parsed == parseMidiToTracks(entries[k].midi)
           named  == [p \in DOMAIN parsed.tracks |->
                        [parsed.tracks[p] EXCEPT
                           !.name = BaseName(entries[k].filename)]]
           first  == Len(parsed.tracks) > 0 /\ Len(acc.tracks) = 0
       IN StackFrom(entries, k + 1,
                    [tracks |-> acc.tracks \o named,
                     duration |-> Max(acc.duration, parsed.duration),
                     bpm |-> IF first THEN parsed.bpm ELSE acc.bpm,
                     timeSignature |-> IF first THEN parsed.timeSignature
                                       ELSE acc.timeSignature])

\* What loadAllSavedTracks starts from, and returns for an empty listing
NoTracks ==
  [tracks |-> <<>>, duration |-> 0, bpm |-> DefaultBpm,
   timeSignature |-> DefaultTimeSignature]

loadAllSavedTracks(entries) ==
  IF entries = <<>> THEN NoTracks
  ELSE LET all == StackFrom(entries, 1, NoTracks)
       IN [all EXCEPT !.tracks = Reindex(all.tracks)]

\* A live track as a parse of the file take.mid delivers it
Track(i, ch, ns) ==
  [index |-> i, name |-> "take", filename |-> "", channel |-> ch, notes |-> ns,
   color |-> PaletteColor(i), muted |-> FALSE, visible |-> TRUE]

SoloSet == << Track(0, 0, << Note(0, 1), Note(2, 1) >>) >>

BandSet == << Track(0, 0, << Note(0, 1) >>), Track(1, DrumChannel, << Hit(1, 1) >>) >>

\* Track lists play and seek are applied to
TrackSets == {SoloSet, BandSet}

\* The saved-track listing: one file, whose second track has no notes
TakeMidi ==
  Midi(<< 905 >>, << <<3, 4>> >>,
       << MidiTrack("", 0, << Note(0, 1) >>), MidiTrack("", 0, <<>>),
          MidiTrack("", DrumChannel, << Hit(1, 1) >>) >>)

BandListing == << Entry("take.mid", TakeMidi) >>

\* Three files stacked: the first has no notes, the others one track each,
\* which is track 0 of its file
StackListing ==
  << Entry("take.mid", Midi(<< 600 >>, << <<2, 4>> >>, << MidiTrack("", 0, <<>>) >>)),
     Entry("lead.MID",
           Midi(<< 1400 >>, << <<6, 8>> >>, << MidiTrack("Lead", 0, << Note(0, 1) >>) >>)),
     Entry("drum_kit.mid",
           Midi(<<>>, <<>>, << MidiTrack("", DrumChannel, << Hit(1, 2) >>) >>)) >>

\* One file of percussion tracks, one more than the palette has colors
KitListing ==
  << Entry("kit.mid",
           Midi(<<>>, <<>>,
                [i \in 1..(Len(TRACK_COLORS) + 1) |->
                   MidiTrack("", DrumChannel, << Hit(1, 1) >>)])) >>

\* The listings the server answers with
Listings == {BandListing, StackListing}

\* The listings loadAllSavedTracks is applied to
ParseInputs == Listings \cup {KitListing}

\* What the user types into the edit field of a layer item
Typed == {"  ", " my solo "}

\* editValue.trim() on the typed values
trim(v) == CASE v = "  " -> ""
             [] v = " my solo " -> "my solo"
             [] OTHER -> v

\* newName.replace(/\s+/g, "_") on the trimmed values
Underscored(nm) == CASE nm = "my solo" -> "my_solo"
                     [] OTHER -> nm

\* Names a rename request is sent for
NewNames == { trim(v) : v \in Typed } \ {""}

\* data.filename of the answer to the rename request
ServerFilename(fn) == IF fn = "my_solo" THEN "my_solo.mid" ELSE fn

\* What loadAllSavedTracks resolves to
SavedResults == { loadAllSavedTracks(BandListing) }

\* Track lists the saved-track listing delivers
SavedSets == { r.tracks : r \in SavedResults }

\* Timeline positions a click on the track canvas can seek to
SeekTimes == {0, 2}

\* Positions play can be asked to start from
FromTimes == {0, 2, 4}

NotePairs(tracks) ==
  UNION { { <<p, n>> : n \in DOMAIN tracks[p].notes } : p \in DOMAIN tracks }

NoteEnd(tracks, pn) ==
  tracks[pn[1]].notes[pn[2]].time + tracks[pn[1]].notes[pn[2]].duration

maxEnd(tracks) == SetMax({ NoteEnd(tracks, pn) : pn \in NotePairs(tracks) })

\* The latest instant the transport clock has to reach for any schedule
MaxClock == SetMax({ maxEnd(ts) : ts \in TrackSets }) + Epsilon

----------------------------------------------------------------------------
\* Tone.Transport, as the engine uses it

TransportCancel(tr) == [tr EXCEPT !.timeline = {}]

TransportClear(tr, id) ==
  [tr EXCEPT !.timeline = { ev \in @ : ev.id # id }]

TransportSetSeconds(tr, s) ==
  [tr EXCEPT !.seconds = s,
             !.timeline = { [ev EXCEPT !.fired = (ev.time < s)] : ev \in @ }]

TransportStart(tr) == [tr EXCEPT !.state = "started"]

TransportPause(tr) ==
  IF tr.state = "started" THEN [tr EXCEPT !.state = "paused"] ELSE tr

TransportStop(tr) ==
  TransportSetSeconds([tr EXCEPT !.state = "stopped"], 0)

----------------------------------------------------------------------------
\* AudioEngine

RECURSIVE ClearIds(_, _)
ClearIds(tr, ids) ==
  IF ids = <<>> THEN tr
  ELSE ClearIds(TransportClear(tr, Head(ids)), Tail(ids))

clearScheduled(e) ==
  IF ~e.Tone THEN e
  ELSE LET t1 == ClearIds(e.transport, e.scheduledEvents)
           t2 == IF e.endEventId # NoId THEN TransportClear(t1, e.endEventId) ELSE t1
       IN [e EXCEPT !.transport = t2, !.scheduledEvents = <<>>, !.endEventId = NoId]

\* Variant: the loop skips no note that ended before startFrom
ToScheduleNoSkip(e, tracks, startFrom) ==
  { pn \in NotePairs(tracks) : tracks[pn[1]].index \in DOMAIN e.trackChannels }

\* The notes the loop of schedulePlayback does not skip
ToSchedule(e, tracks, startFrom) ==
  { pn \in NotePairs(tracks) :
      /\ tracks[pn[1]].index \in DOMAIN e.trackChannels
      /\ ~(NoteEnd(tracks, pn) < startFrom) }

Before(a, b) == a[1] < b[1] \/ (a[1] = b[1] /\ a[2] < b[2])

Rank(S, pn) == Cardinality({ q \in S : Before(q, pn) })

\* The event of a note: its callback holds the note and the track's channel
NoteEvent(tracks, pn, id, startFrom, g, channel) ==
  [id |-> id, kind |-> "note", track |-> tracks[pn[1]].index, n |-> pn[2],
   time |-> Max(0, tracks[pn[1]].notes[pn[2]].time - startFrom),
   capAudible |-> (~tracks[pn[1]].muted /\ tracks[pn[1]].visible),
   name |-> tracks[pn[1]].notes[pn[2]].name,
   gain |-> tracks[pn[1]].notes[pn[2]].velocity,
   voice |-> channel.kind,
   gen |-> g, fired |-> FALSE]

\* Variant: the end event is placed at offset zero, whatever the last note end
EndEventEarly(tracks, id, startFrom, g) ==
  [id |-> id, kind |-> "end", track |-> 0, n |-> 0,
   time |-> 0, startFrom |-> startFrom,
   capAudible |-> TRUE, gen |-> g, fired |-> FALSE]

\* The end event of a schedule; it records the startFrom the schedule was
\* made for
EndEvent(tracks, id, startFrom, g) ==
  [id |-> id, kind |-> "end", track |-> 0, n |-> 0,
   time |-> Max(0, maxEnd(tracks) - startFrom + Epsilon),
   startFrom |-> startFrom,
   capAudible |-> TRUE, gen |-> g, fired |-> FALSE]

\* heard records the last note-on callback of the current schedule: the id of
\* its event and whether it triggered its voice
Unheard == [id |-> NoId, snd |-> FALSE, calls |-> <<>>]

\* The id Transport.schedule hands out next. Ids are opaque increasing handles:
\* they are numbered from just above the largest one the transport or the
\* engine still holds.
FreshId(c) ==
  1 + SetMax({ ev.id : ev \in c.transport.timeline }
               \cup { c.scheduledEvents[k] : k \in DOMAIN c.scheduledEvents }
               \cup { c.endEventId })

\* The scheduling part of schedulePlayback, after clearScheduled
scheduleAll(c, tracks, startFrom) ==
  LET S    == ToSchedule(c, tracks, startFrom)
      base == FreshId(c)
      N    == Cardinality(S)
      g    == c.gen + 1
      evs  == { NoteEvent(tracks, pn, base + Rank(S, pn), startFrom, g,
                          c.trackChannels[tracks[pn[1]].index]) : pn \in S }
                 \cup { EndEvent(tracks, base + N, startFrom, g) }
  IN [c EXCEPT !.transport.timeline = @ \cup evs,
               !.scheduledEvents = [k \in 1..N |-> base + k - 1],
               !.endEventId = base + N,
               !.gen = g,
               !.endFires = 0,
               !.heard = Unheard]

schedulePlayback(e, tracks, startFrom) ==
  IF ~e.Tone THEN e
  ELSE scheduleAll(clearScheduled(e), tracks, startFrom)

\* Variant: play reschedules without cancelling what is on the transport
playNoCancel(e, tracks, fromTime) ==
  IF ~e.Tone THEN e
  ELSE LET e1 == [e EXCEPT !.transport = TransportSetSeconds(@, 0)]
           e2 == scheduleAll(e1, tracks, fromTime)
       IN [e2 EXCEPT !.transport = TransportStart(@), !.lastOp = "play"]

\* lastOp records the last transport operation that got past its Tone guard
play(e, tracks, fromTime) ==
  IF ~e.Tone THEN e
  ELSE LET e1 == [e EXCEPT !.transport = TransportSetSeconds(TransportCancel(@), 0)]
           e2 == schedulePlayback(e1, tracks, fromTime)
       IN [e2 EXCEPT !.transport = TransportStart(@), !.lastOp = "play"]

\* Variant: pause forces the paused state whatever the transport was doing
pauseForced(e) ==
  IF ~e.Tone THEN e
  ELSE [e EXCEPT !.transport.state = "paused", !.lastOp = "pause"]

\* Variant: pause calls transport.stop()
pauseByStop(e) ==
  IF ~e.Tone THEN e
  ELSE [e EXCEPT !.transport = TransportStop(@), !.lastOp = "pause"]

pause(e) ==
  IF ~e.Tone THEN e
  ELSE [e EXCEPT !.transport = TransportPause(@), !.lastOp = "pause"]

\* Variant: stop calls transport.pause()
stopByPause(e) ==
  IF ~e.Tone THEN e
  ELSE [clearScheduled([e EXCEPT !.transport = TransportCancel(TransportPause(@))])
        EXCEPT !.lastOp = "stop", !.heard = Unheard]

stop(e) ==
  IF ~e.Tone THEN e
  ELSE [clearScheduled(
          [e EXCEPT !.transport =
             TransportSetSeconds(TransportCancel(TransportStop(@)), 0)])
        EXCEPT !.lastOp = "stop", !.heard = Unheard]

\* Variant: seek reads the transport state after stopping it
seekLateRead(e, tracks, toTime) ==
  IF ~e.Tone THEN e
  ELSE LET e1 == clearScheduled(
                   [e EXCEPT !.transport = TransportCancel(TransportStop(@))])
           wasPlaying == e1.transport.state = "started"
       IN [(IF wasPlaying THEN play(e1, tracks, toTime) ELSE e1)
           EXCEPT !.lastOp = "seek"]

seek(e, tracks, toTime) ==
  IF ~e.Tone THEN e
  ELSE LET wasPlaying == e.transport.state = "started"
           e1 == clearScheduled(
                   [e EXCEPT !.transport = TransportCancel(TransportStop(@))])
       IN [(IF wasPlaying THEN play(e1, tracks, toTime) ELSE e1)
           EXCEPT !.lastOp = "seek"]

setTrackMute(e, trackIndex, muted) ==
  IF trackIndex \in DOMAIN e.trackChannels
  THEN [e EXCEPT !.trackChannels[trackIndex].gain = IF muted THEN 0 ELSE 1]
  ELSE e

getTransportSeconds(e) == IF ~e.Tone THEN 0 ELSE e.transport.seconds

getTransportState(e) == IF ~e.Tone THEN "stopped" ELSE e.transport.state

----------------------------------------------------------------------------
\* ensureStarted / loadTracks pieces

\* loadDeps: the lazy imports have resolved
loadDeps(e) == [e EXCEPT !.Tone = TRUE]

\* ensureStarted after loadDeps, up to its await of Tone.start()
callToneStart(e) == [e EXCEPT !.startCalls = @ + 1]

\* ensureStarted after Tone.start() has resolved
markStarted(e) == [e EXCEPT !.started = TRUE]

disposeChannels(e) == [e EXCEPT !.trackChannels = [i \in {} |-> 0]]

\* A voice as loadTracks allocates it: a fresh gain node has gain 1. stale
\* tells that the call that allocates it is one after whose disposeChannels
\* another call has run its own.
Channel(k, stale) ==
  [gain |-> 1, kind |-> k, voice |-> IF k = "drum" THEN "kit" ELSE "requested",
   stale |-> stale]

\* The voice of the catch block of loadTracks
FallbackChannel(stale) ==
  [Channel("melodic", stale) EXCEPT !.voice = "acoustic_grand_piano"]

setChannel(e, idx, ch) ==
  [e EXCEPT !.trackChannels =
     [i \in (DOMAIN @) \cup {idx} |-> IF i = idx THEN ch ELSE @[i]]]

\* The loop of loadTracks from track position i up to its next await:
\* percussion tracks get their drum kit without awaiting
RECURSIVE AdvanceDrums(_, _, _, _)
AdvanceDrums(e, tracks, i, stale) ==
  IF i <= Len(tracks) /\ tracks[i].channel = DrumChannel
  THEN AdvanceDrums(setChannel(e, tracks[i].index, Channel("drum", stale)),
                    tracks, i + 1, stale)
  ELSE [e |-> e, i |-> i]

\* loadTracks after its await of loadDeps
loadTracksBody(e, tracks) ==
  AdvanceDrums(disposeChannels(loadDeps(e)), tracks, 1, FALSE)

\* The other loadTracks calls in flight L, once a call has run its
\* disposeChannels: those that have run theirs before are superseded
Superseded(l) ==
  IF l.pc \in {"voice", "fallback"} THEN [l EXCEPT !.superseded = TRUE] ELSE l

Supersede(L) ==
  [r \in { Superseded(l) : l \in DOMAIN L } |->
     BagCardinality([l \in { x \in DOMAIN L : Superseded(x) = r } |-> L[l]])]

----------------------------------------------------------------------------
\* Editor store (zustand)

setTracks(s, tracks) == [s EXCEPT !.tracks = tracks]

\* Variant: muting a track hides it too
toggleMuteHiding(s, index) ==
  [s EXCEPT !.tracks =
     [p \in DOMAIN @ |-> IF @[p].index = index
                         THEN [@[p] EXCEPT !.muted = ~@, !.visible = FALSE]
                         ELSE @[p]]]

toggleMute(s, index) ==
  [s EXCEPT !.tracks =
     [p \in DOMAIN @ |-> IF @[p].index = index
                         THEN [@[p] EXCEPT !.muted = ~@] ELSE @[p]]]

toggleVisible(s, index) ==
  [s EXCEPT !.tracks =
     [p \in DOMAIN @ |-> IF @[p].index = index
                         THEN [@[p] EXCEPT !.visible = ~@] ELSE @[p]]]

renameTrack(s, index, newName, newFilename) ==
  [s EXCEPT !.tracks =
     [p \in DOMAIN @ |-> IF @[p].index = index
                         THEN [@[p] EXCEPT !.name = newName,
                                           !.filename = newFilename]
                         ELSE @[p]]]

setBpm(s, bpm) == [s EXCEPT !.transport.bpm = bpm]

setTimeSignature(s, ts) == [s EXCEPT !.transport.timeSignature = ts]

setTotalDuration(s, d) == [s EXCEPT !.viewport.totalDuration = d]

setScrollX(s, x) == [s EXCEPT !.viewport.scrollX = x]

setPlaying(s, playing) == [s EXCEPT !.transport.playing = playing]

setCurrentTime(s, t) == [s EXCEPT !.transport.currentTime = t]

setPhase(s, ph) == [s EXCEPT !.phase = ph]

setJobId(s, jobId) == [s EXCEPT !.jobId = jobId]

setRecordedFile(s, file) == [s EXCEPT !.recordedFile = file]

setErrorMessage(s, msg) == [s EXCEPT !.errorMessage = msg]

\* The page's store subscriber: setTrackMute for every live track
RECURSIVE MuteSync(_, _, _)
MuteSync(e, tracks, p) ==
  IF p > Len(tracks) THEN e
  ELSE MuteSync(setTrackMute(e, tracks[p].index, tracks[p].muted), tracks, p + 1)

Notify(e, s) == MuteSync(e, s.tracks, 1)

\* The mute/visible check of a scheduled note-on against the live store
LiveAudible(s, trackIndex) ==
  \E p \in DOMAIN s.tracks :
     /\ s.tracks[p].index = trackIndex
     /\ ~s.tracks[p].muted
     /\ s.tracks[p].visible

----------------------------------------------------------------------------
----------------------------------------------------------------------------
\* The canvas layers of TrackCanvas. Pixels are whole numbers; times are in
\* tenths of a second, so t * pps / 10 is the pixel offset of time t, and a
\* comparison of a time with pixels / pps is made on the cross products.

LANE_HEIGHT == 4

NOTE_RANGE == [min |-> 21, max |-> 108]

\* The least width of the canvas container: TimelineArea lays it out at
\* least this wide
MinWidth == 1000

\* time * pixelsPerSecond
Px(t, pixelsPerSecond) == (t * pixelsPerSecond) \div 10

\* The rectangle drawNotes fills for note k of the track at position p
NoteRect(tracks, p, k, scrollX, pixelsPerSecond) ==
  LET track == tracks[p]
      note  == track.notes[k]
  IN [track |-> track.index, n |-> k,
      x |-> Px(note.time, pixelsPerSecond) - scrollX,
      w |-> Max(2, Px(note.duration, pixelsPerSecond)),
      y |-> (NOTE_RANGE.max - note.midi) * LANE_HEIGHT,
      h |-> LANE_HEIGHT,
      alpha |-> ((IF track.muted THEN 40 ELSE 100) * note.velocity) \div 100,
      color |-> track.color]

\* The notes the loops of drawNotes do not skip, but for the track test
NotCulled(tracks, p, k, width, scrollX, pixelsPerSecond) ==
  LET note == tracks[p].notes[k]
  IN /\ ~((note.time + note.duration) * pixelsPerSecond < scrollX * 10)
     /\ ~(note.time * pixelsPerSecond > (scrollX + width) * 10)
     /\ ~(note.midi < NOTE_RANGE.min \/ note.midi > NOTE_RANGE.max)

\* Variant: the notes of muted tracks are skipped too
drawNotesUnmuted(width, scrollX, pixelsPerSecond, tracks) ==
  { NoteRect(tracks, pn[1], pn[2], scrollX, pixelsPerSecond) :
      pn \in { q \in NotePairs(tracks) :
                 /\ tracks[q[1]].visible /\ ~tracks[q[1]].muted
                 /\ NotCulled(tracks, q[1], q[2], width, scrollX, pixelsPerSecond) } }

\* drawNotes: the rectangles on the note layer after the call
drawNotes(width, scrollX, pixelsPerSecond, tracks) ==
  { NoteRect(tracks, pn[1], pn[2], scrollX, pixelsPerSecond) :
      pn \in { q \in NotePairs(tracks) :
                 /\ tracks[q[1]].visible
                 /\ NotCulled(tracks, q[1], q[2], width, scrollX, pixelsPerSecond) } }

\* The bars the loop of drawGrid runs over: floor(startTime / secondsPerBar)
\* to ceil(endTime / secondsPerBar), with secondsPerBar = 60 / bpm * beats
GridBars(width, scrollX, pixelsPerSecond, bpm, timeSignature) ==
  LET den == pixelsPerSecond * 60 * timeSignature[1]
      firstBar == (scrollX * bpm) \div den
      lastBar  == ((scrollX + width) * bpm + den - 1) \div den
  IN firstBar..lastBar

\* drawGrid: the lane lines (one per pitch row and one below, across the
\* width) and the vertical lines on the grid layer after the call. A vertical
\* line is at x = xnum / bpm pixels: beat number beat of bar number bar, the
\* bar line being beat 0.
drawGrid(width, scrollX, pixelsPerSecond, bpm, timeSignature) ==
  [lanes |-> [n |-> NOTE_RANGE.max - NOTE_RANGE.min + 2, to |-> width],
   lines |-> { [bar |-> b, beat |-> k,
                xnum |-> (b * timeSignature[1] + k) * 60 * pixelsPerSecond
                           - scrollX * bpm] :
               b \in GridBars(width, scrollX, pixelsPerSecond, bpm, timeSignature),
               k \in 0..(timeSignature[1] - 1) }]

\* redrawGridAndNotes: nothing is drawn once the container ref is detached.
\* painted tells which transport the render held whose callback drew last.
redrawGridAndNotes(u, s) ==
  IF ~u.mounted THEN u
  ELSE [u EXCEPT
          !.grid = drawGrid(u.width, s.viewport.scrollX, s.viewport.pixelsPerSecond,
                            s.transport.bpm, s.transport.timeSignature),
          !.notes = drawNotes(u.width, s.viewport.scrollX,
                              s.viewport.pixelsPerSecond, s.tracks),
          !.painted = [playing |-> s.transport.playing,
                       currentTime |-> s.transport.currentTime]]

\* A render of TrackCanvas after a change of the store's tracks, transport or
\* viewport: the effect without dependencies observes the container with a
\* new ResizeObserver, whose first callback redraws the grid and the notes;
\* the redraw effect has run before if its dependencies changed
renderTrackCanvas(u, s) == redrawGridAndNotes(u, s)

\* Calls in flight (handlePlay, track loads) are kept as bags: each is a
\* promise chain of its own and they hold no order among themselves.
One(x) == SetToBag({x})

\* An async load of the saved tracks at its await of loadAllSavedTracks;
\* cancelled is the flag of the effect that started it
LoadCall(kind) ==
  [kind |-> kind, pc |-> "fetch", tracks |-> <<>>, i |-> 0,
   superseded |-> FALSE, cancelled |-> FALSE]

\* checkSavedTracks of the startup effect
SavedCheck == LoadCall("startup")

\* useJobPolling: null job id, null data, null intervalRef
NoJob == "null"

NoData ==
  [job |-> NoJob, gen |-> 0, status |-> "null", music |-> FALSE,
   actions |-> FALSE]

NoInterval == [job |-> NoJob, gen |-> 0]

\* A hook instance that is not mounted, and one just mounted
NoHook ==
  [mounted |-> FALSE, jobId |-> NoJob, generation |-> 0, data |-> NoData,
   intervalRef |-> NoInterval, net |-> EmptyBag, terminal |-> FALSE]

FreshHook == [NoHook EXCEPT !.mounted = TRUE]

\* VoiceInputCard with its useAudioRecorder: voiceState, recorderState, error,
\* the pending getUserMedia calls mic, mediaRecorderRef (recorder: none,
\* recording, or stopping while its stop event is pending) and timerRef
NoCard ==
  [mounted |-> FALSE, voiceState |-> "ready", recorderState |-> "idle",
   error |-> "null", mic |-> 0, recorder |-> "none", timer |-> FALSE]

FreshCard == [NoCard EXCEPT !.mounted = TRUE]

Init ==
  /\ eng = [Tone |-> FALSE, started |-> FALSE,
            trackChannels |-> [i \in {} |-> 0],
            scheduledEvents |-> <<>>, endEventId |-> NoId,
            transport |-> [state |-> "stopped", seconds |-> 0,
                           timeline |-> {}],
            gen |-> 0, endFires |-> 0, startCalls |-> 0, lastOp |-> "none",
            heard |-> Unheard]
  /\ store = [phase |-> "empty", jobId |-> NoJob, recordedFile |-> FALSE,
              errorMessage |-> "null", tracks |-> <<>>,
              transport |-> [playing |-> FALSE, currentTime |-> 0,
                             bpm |-> 120, timeSignature |-> <<4, 4>>],
              viewport |-> [scrollX |-> 0, pixelsPerSecond |-> 100,
                            totalDuration |-> 0]]
  /\ plays = EmptyBag
  /\ loads = One(SavedCheck)
  /\ userActive = TRUE
  /\ ui = [mounted |-> TRUE, effects |-> "running", inst |-> 1, active |-> {1},
           clockRef |-> 1, playRef |-> 2,
           frames |-> { [id |-> 1, loop |-> "clock", inst |-> 1],
                        [id |-> 2, loop |-> "playhead", inst |-> 1] },
           drawn |-> 0, late |-> FALSE,
           items |-> [i \in {} |-> 0], renames |-> EmptyBag,
           logged |-> "none",
           width |-> MinWidth,
           grid |-> drawGrid(MinWidth, 0, 100, 120, <<4, 4>>),
           notes |-> {},
           painted |-> [playing |-> FALSE, currentTime |-> 0],
           poll |-> [mounted |-> TRUE, jobId |-> NoJob, generation |-> 0,
                     data |-> NoData, intervalRef |-> NoInterval,
                     net |-> EmptyBag, terminal |-> FALSE],
           overlay |-> NoHook, card |-> FreshCard, uploads |-> 0]


----------------------------------------------------------------------------
\* Transport clock and scheduled callbacks (Tone.Transport while started)

Unfired(e) == { ev \in e.transport.timeline : ~ev.fired }

Due(e) == { ev \in Unfired(e) : ev.time <= e.transport.seconds }

Running(e) == e.Tone /\ e.started /\ e.transport.state = "started"

Tick ==
  /\ Running(eng)
  /\ eng.transport.seconds < MaxClock
  /\ Due(eng) = {}
  /\ eng' = [eng EXCEPT !.transport.seconds = @ + 1]
  /\ UNCHANGED <<store, plays, loads, userActive, ui>>

NextDue(e) ==
  CHOOSE ev \in Due(e) :
    \A o \in Due(e) : ev.time < o.time \/ (ev.time = o.time /\ ev.id <= o.id)

\* One triggerAttackRelease call on a synth of the drum kit: pitch is the
\* note name, or freq the frequency, the synth is triggered at (noise synths
\* take neither), dur in milliseconds, vel in hundredths (0: not passed)
Trig(synth, pitch, freq, dur, vel) ==
  [synth |-> synth, pitch |-> pitch, freq |-> freq, dur |-> dur, vel |-> vel]

\* Variant: the tom range is tested before the single numbers
kitPlayRangeFirst(noteName, gain) ==
  LET midi == toMidi(noteName)
      vel  == Min(100, gain)
  IN IF midi = 35 \/ midi = 36 THEN << Trig("kick", "C1", 0, 500, vel) >>
     ELSE IF midi >= 40 /\ midi <= 50
       THEN << Trig("tom", "", 60 + (midi - 41) * 20, 200, vel) >>
     ELSE IF midi = 38
       THEN << Trig("snareNoise", "", 0, 120, 0), Trig("snareBody", "C3", 0, 80, vel) >>
     ELSE << Trig("hihatNoise", "", 0, 30, 0) >>

\* instrument.play of the drum kit: the synths it triggers
kitPlay(noteName, gain) ==
  LET midi == toMidi(noteName)
      vel  == Min(100, gain)
  IN IF midi = 35 \/ midi = 36 THEN << Trig("kick", "C1", 0, 500, vel) >>
     ELSE IF midi = 37 THEN << Trig("snareBody", "E3", 0, 50, (vel * 6) \div 10) >>
     ELSE IF midi = 38 \/ midi = 40
       THEN << Trig("snareNoise", "", 0, 120, 0), Trig("snareBody", "C3", 0, 80, vel) >>
     ELSE IF midi = 39 THEN << Trig("snareNoise", "", 0, 60, 0) >>
     ELSE IF midi = 42 \/ midi = 44 THEN << Trig("hihatNoise", "", 0, 40, 0) >>
     ELSE IF midi = 46 THEN << Trig("openHatNoise", "", 0, 250, 0) >>
     ELSE IF midi = 49 \/ midi = 52 \/ midi = 55 \/ midi = 57
       THEN << Trig("cymbalNoise", "", 0, 700, 0) >>
     ELSE IF midi = 51 \/ midi = 53 \/ midi = 59
       THEN << Trig("openHatNoise", "", 0, 400, 0) >>
     ELSE IF midi >= 41 /\ midi <= 50
       THEN << Trig("tom", "", 60 + (midi - 41) * 20, 200, vel) >>
     ELSE << Trig("hihatNoise", "", 0, 30, 0) >>

\* channel.instrument.play of a note event: a drum kit triggers its synths,
\* a sampled instrument plays the note itself
instrumentPlay(ev) ==
  IF ev.voice = "drum" THEN kitPlay(ev.name, ev.gain) ELSE <<>>

\* Variant: the callback checks the flags of the track object it captured
noteCallbackCaptured(e, s, ev) ==
  [e EXCEPT !.transport.timeline = (@ \ {ev}) \cup {[ev EXCEPT !.fired = TRUE]},
            !.heard = [id |-> ev.id, snd |-> ev.capAudible,
                       calls |-> IF ev.capAudible THEN instrumentPlay(ev) ELSE <<>>]]

\* The callback schedulePlayback registers for a note
noteCallback(e, s, ev) ==
  [e EXCEPT !.transport.timeline = (@ \ {ev}) \cup {[ev EXCEPT !.fired = TRUE]},
            !.heard = [id |-> ev.id, snd |-> LiveAudible(s, ev.track),
                       calls |-> IF LiveAudible(s, ev.track)
                                 THEN instrumentPlay(ev) ELSE <<>>]]

\* Velocities a note is played with, in hundredths
Gains == {80, 120}

\* instrument.play of a loaded drum kit, for a note of any number and velocity
KitPlay ==
  \E i \in DOMAIN eng.trackChannels, n \in MidiNumbers, g \in Gains :
    /\ eng.trackChannels[i].kind = "drum"
    /\ eng' = [eng EXCEPT !.heard = [id |-> NoId, snd |-> TRUE,
                                     calls |-> kitPlay(toNote(n), g)]]
    /\ UNCHANGED <<store, plays, loads, userActive, ui>>

FireNote ==
  /\ Running(eng)
  /\ Due(eng) # {}
  /\ NextDue(eng).kind = "note"
  /\ eng' = noteCallback(eng, store, NextDue(eng))
  /\ UNCHANGED <<store, plays, loads, userActive, ui>>

\* Variant: the end callback with no onEnd callback registered by the page
FireEndUnheard ==
  /\ Running(eng)
  /\ Due(eng) # {}
  /\ NextDue(eng).kind = "end"
  /\ eng' = Notify(stop([eng EXCEPT !.endFires = @ + 1]), store)
  /\ UNCHANGED <<store, plays, loads, userActive, ui>>

\* The end callback of schedulePlayback, with the page's onEnd callback
FireEnd ==
  /\ Running(eng)
  /\ Due(eng) # {}
  /\ NextDue(eng).kind = "end"
  /\ LET e1 == stop([eng EXCEPT !.endFires = @ + 1])
         s1 == setCurrentTime(setPlaying(store, FALSE), 0)
     IN /\ store' = s1
        /\ eng' = Notify(e1, s1)
  /\ ui' = renderTrackCanvas(ui, store')
  /\ UNCHANGED <<plays, loads, userActive>>

\* useAnimationFrame tick
RafTick ==
  /\ store.transport.playing
  /\ store.transport.currentTime # getTransportSeconds(eng)
  /\ store' = setCurrentTime(store, getTransportSeconds(eng))
  /\ eng' = Notify(eng, store')
  /\ ui' = renderTrackCanvas(ui, store')
  /\ UNCHANGED <<plays, loads, userActive>>

----------------------------------------------------------------------------
\* The frame loops: useAnimationFrame (clock sync) and the playhead loop of
\* TrackCanvas. ui.frames holds the callbacks requestAnimationFrame has
\* pending, ui.active the effect instances whose active flag is set;
\* ui.mounted tells whether the canvas refs are attached; ui.late records a
\* clock write or a playhead redraw made for an effect instance after its
\* cleanup.

\* The handle requestAnimationFrame returns next. Handles are opaque and only
\* compared for equality: the next one is the least number that no pending
\* frame and no rafRef holds.
FreshFrame(u) ==
  LET held == { f.id : f \in u.frames } \cup {u.clockRef, u.playRef}
  IN CHOOSE id \in 1..(Cardinality(held) + 1) :
       id \notin held /\ \A j \in 1..(id - 1) : j \in held

cancelAnimationFrame(u, id) == [u EXCEPT !.frames = { f \in @ : f.id # id }]

\* rafRef.current = requestAnimationFrame(tick)
requestClock(u, inst) ==
  LET id == FreshFrame(u)
  IN [u EXCEPT !.frames = @ \cup {[id |-> id, loop |-> "clock", inst |-> inst]},
               !.clockRef = id]

\* rafRef.current = requestAnimationFrame(animate)
requestPlayhead(u, inst) ==
  LET id == FreshFrame(u)
  IN [u EXCEPT !.frames = @ \cup {[id |-> id, loop |-> "playhead", inst |-> inst]},
               !.playRef = id]

\* The effect instance inst has not been cleaned up
Live(u, inst) == u.effects = "running" /\ u.inst = inst

\* Variant: the cleanups cancel no pending frame
cleanupNoCancel(u) ==
  [u EXCEPT !.active = @ \ {u.inst}, !.effects = "none"]

\* The cleanups of both loop effects
cleanup(u) ==
  LET u1 == [u EXCEPT !.active = @ \ {u.inst}]
      u2 == IF u1.clockRef # NoId THEN cancelAnimationFrame(u1, u1.clockRef) ELSE u1
      u3 == IF u2.playRef # NoId THEN cancelAnimationFrame(u2, u2.playRef) ELSE u2
  IN [u3 EXCEPT !.effects = "none"]

\* A pending tick of useAnimationFrame is called
ClockFrame ==
  \E f \in ui.frames :
    /\ f.loop = "clock"
    /\ LET u1 == [ui EXCEPT !.frames = @ \ {f}]
       IN IF f.inst \notin ui.active
          THEN /\ ui' = u1
               /\ UNCHANGED <<eng, store>>
          ELSE /\ store' = IF store.transport.playing
                           THEN setCurrentTime(store, getTransportSeconds(eng))
                           ELSE store
               /\ eng' = Notify(eng, store')
               /\ ui' = renderTrackCanvas(
                           [requestClock(u1, f.inst) EXCEPT
                              !.late = @ \/ (store.transport.playing
                                               /\ ~Live(ui, f.inst))], store')
    /\ UNCHANGED <<plays, loads, userActive>>

\* A pending animate of the playhead loop is called
PlayheadFrame ==
  \E f \in ui.frames :
    /\ f.loop = "playhead"
    /\ LET u1 == [ui EXCEPT !.frames = @ \ {f}]
       IN IF ~ui.mounted
          THEN ui' = u1
          ELSE ui' = [requestPlayhead(u1, f.inst) EXCEPT
                        !.drawn = store.transport.currentTime,
                        !.late = @ \/ ~Live(ui, f.inst)]
    /\ UNCHANGED <<eng, store, plays, loads, userActive>>

\* The view leaves the page: React detaches the canvas refs
Unmount ==
  /\ ui.mounted
  /\ ui' = [ui EXCEPT !.mounted = FALSE]
  /\ UNCHANGED <<eng, store, plays, loads, userActive>>

\* React runs the cleanups of the loop effects: at unmount, after the refs
\* are detached, or before it runs the effects again on the mounted view
CleanupLoops ==
  /\ ui.effects = "running"
  /\ ui' = cleanup(ui)
  /\ UNCHANGED <<eng, store, plays, loads, userActive>>

\* React runs the loop effects again on the mounted view
SetupLoops ==
  /\ ui.mounted
  /\ ui.effects = "none"
  /\ ui.inst < MaxMounts
  /\ LET i  == ui.inst + 1
         u1 == [ui EXCEPT !.inst = i, !.active = @ \cup {i}, !.effects = "running"]
     IN ui' = requestPlayhead(requestClock(u1, i), i)
  /\ UNCHANGED <<eng, store, plays, loads, userActive>>

----------------------------------------------------------------------------
\* Page handlers

\* handlePlay after its await of ensureStarted, on the snapshot it took
playBranch(e, s, snap) ==
  IF snap.playing
  THEN [e |-> pause(e), s |-> setPlaying(s, FALSE)]
  ELSE [e |-> play(e, snap.tracks, snap.currentTime), s |-> setPlaying(s, TRUE)]

Snapshot(s) ==
  [tracks |-> s.tracks, playing |-> s.transport.playing,
   currentTime |-> s.transport.currentTime]

InFlight == BagCardinality(plays) + BagCardinality(loads)

HandlePlay ==
  /\ userActive
  /\ store.phase = "editor"
  /\ eng.gen + BagCardinality(plays) < MaxPlays
  /\ (eng.Tone /\ eng.started) \/ InFlight < MaxInFlight
  /\ IF eng.Tone /\ eng.started
     THEN LET r == playBranch(eng, store, Snapshot(store))
          IN /\ store' = r.s
             /\ eng' = Notify(r.e, r.s)
             /\ plays' = plays
     ELSE IF eng.Tone
     THEN /\ eng' = callToneStart(eng)
          /\ plays' = plays (+) One([pc |-> "ctx", snap |-> Snapshot(store)])
          /\ store' = store
     ELSE /\ plays' = plays (+) One([pc |-> "deps", snap |-> Snapshot(store)])
          /\ UNCHANGED <<eng, store>>
  /\ ui' = renderTrackCanvas(ui, store')
  /\ UNCHANGED <<loads, userActive>>

\* ensureStarted: the imports resolved
PlayDepsLoaded ==
  \E p \in BagToSet(plays) :
    /\ p.pc = "deps"
    /\ IF eng.started
       THEN LET r == playBranch(loadDeps(eng), store, p.snap)
            IN /\ store' = r.s
               /\ eng' = Notify(r.e, r.s)
               /\ plays' = plays (-) One(p)
       ELSE /\ eng' = callToneStart(loadDeps(eng))
            /\ plays' = (plays (-) One(p)) (+) One([p EXCEPT !.pc = "ctx"])
            /\ store' = store
    /\ ui' = renderTrackCanvas(ui, store')
    /\ UNCHANGED <<loads, userActive>>

\* ensureStarted: Tone.start() resolved; handlePlay continues
PlayCtxStarted ==
  \E p \in BagToSet(plays) :
    /\ p.pc = "ctx"
    /\ LET r == playBranch(markStarted(eng), store, p.snap)
       IN /\ store' = r.s
          /\ eng' = Notify(r.e, r.s)
    /\ plays' = plays (-) One(p)
    /\ ui' = renderTrackCanvas(ui, store')
    /\ UNCHANGED <<loads, userActive>>

HandleStop ==
  /\ userActive
  /\ store.phase = "editor"
  /\ store' = setCurrentTime(setPlaying(store, FALSE), 0)
  /\ eng' = Notify(stop(eng), store')
  /\ ui' = renderTrackCanvas(ui, store')
  /\ UNCHANGED <<plays, loads, userActive>>

HandleSeek ==
  \E t \in SeekTimes :
    /\ userActive
    /\ store.transport.playing => eng.gen + BagCardinality(plays) < MaxPlays
    /\ store' = setCurrentTime(store, t)
    /\ eng' = Notify(IF store.transport.playing
                     THEN seek(eng, store.tracks, t) ELSE eng, store')
    /\ ui' = renderTrackCanvas(ui, store')
    /\ UNCHANGED <<plays, loads, userActive>>

ToggleMute ==
  \E p \in DOMAIN store.tracks :
    /\ userActive
    /\ store' = toggleMute(store, store.tracks[p].index)
    /\ eng' = Notify(eng, store')
    /\ ui' = redrawGridAndNotes(ui, store')
    /\ UNCHANGED <<plays, loads, userActive>>

ToggleVisible ==
  \E p \in DOMAIN store.tracks :
    /\ userActive
    /\ store' = toggleVisible(store, store.tracks[p].index)
    /\ eng' = Notify(eng, store')
    /\ ui' = redrawGridAndNotes(ui, store')
    /\ UNCHANGED <<plays, loads, userActive>>

\* Scroll offsets of the timeline, in pixels
ScrollXs == {0, 20, 50}

\* Widths the canvas container takes, in pixels
Widths == {MinWidth, 1200}

\* handleScroll of TimelineArea, and the redraw the new offset causes
Scroll ==
  \E x \in ScrollXs :
    /\ userActive
    /\ x # store.viewport.scrollX
    /\ store' = setScrollX(store, x)
    /\ eng' = Notify(eng, store')
    /\ ui' = redrawGridAndNotes(ui, store')
    /\ UNCHANGED <<plays, loads, userActive>>

\* The container is resized: the ResizeObserver callback redraws
Resize ==
  \E w \in Widths :
    /\ ui.mounted
    /\ w # ui.width
    /\ ui' = redrawGridAndNotes([ui EXCEPT !.width = w], store)
    /\ UNCHANGED <<eng, store, plays, loads, userActive>>

\* The layer items of the panel, keyed by track index: an item that stays
\* keeps its local state, a new one starts with its track's name
renderItems(u, tracks) ==
  [u EXCEPT !.items =
     [i \in { tracks[p].index : p \in DOMAIN tracks } |->
        IF i \in DOMAIN @ THEN @[i]
        ELSE [editing |-> FALSE,
              editValue |-> tracks[CHOOSE p \in DOMAIN tracks :
                                     tracks[p].index = i].name]]]

setEditing(u, i, b) == [u EXCEPT !.items[i].editing = b]

setEditValue(u, i, v) == [u EXCEPT !.items[i].editValue = v]

\* Double click on the name of a layer item; the input of another item
\* would have lost the focus and committed before
StartEdit ==
  \E p \in DOMAIN store.tracks :
    LET track == store.tracks[p] IN
    /\ userActive
    /\ \A i \in DOMAIN ui.items : ~ui.items[i].editing
    /\ ui' = setEditing(setEditValue(ui, track.index, track.name), track.index, TRUE)
    /\ UNCHANGED <<eng, store, plays, loads, userActive>>

\* onChange of the input
TypeName ==
  \E p \in DOMAIN store.tracks, v \in Typed :
    LET track == store.tracks[p] IN
    /\ userActive
    /\ ui.items[track.index].editing
    /\ ui' = setEditValue(ui, track.index, v)
    /\ UNCHANGED <<eng, store, plays, loads, userActive>>

\* Escape in the input
CancelEdit ==
  \E p \in DOMAIN store.tracks :
    LET track == store.tracks[p] IN
    /\ userActive
    /\ ui.items[track.index].editing
    /\ ui' = setEditValue(setEditing(ui, track.index, FALSE), track.index, track.name)
    /\ UNCHANGED <<eng, store, plays, loads, userActive>>

\* The rename request commitRename sends, with what its closure holds
RenameRequest(track, newName) ==
  [index |-> track.index, newName |-> newName,
   newFilename |-> Underscored(newName),
   prior |-> track.name, filename |-> track.filename]

\* Variant: the request is sent for an unchanged name too
commitRenameAlways(u, track) ==
  LET newName == trim(u.items[track.index].editValue)
      u1 == setEditing(u, track.index, FALSE)
  IN IF newName = "" THEN u1
     ELSE [u1 EXCEPT !.renames = @ (+) One(RenameRequest(track, newName))]

\* commitRename up to its await of the request
commitRename(u, track) ==
  LET newName == trim(u.items[track.index].editValue)
      u1 == setEditing(u, track.index, FALSE)
  IN IF newName = "" \/ newName = track.name THEN u1
     ELSE [u1 EXCEPT !.renames = @ (+) One(RenameRequest(track, newName))]

\* Enter in the input, or the input loses the focus
CommitRename ==
  \E p \in DOMAIN store.tracks :
    LET track == store.tracks[p] IN
    /\ userActive
    /\ ui.items[track.index].editing
    /\ ui' = commitRename(ui, track)
    /\ BagCardinality(ui'.renames) <= MaxInFlight
    /\ UNCHANGED <<eng, store, plays, loads, userActive>>

\* commitRename after a request that failed: the error is logged and the edit
\* field goes back to the name the track had when the request was sent
renameFailed(u, r, msg) ==
  [(IF r.index \in DOMAIN u.items THEN setEditValue(u, r.index, r.prior) ELSE u)
     EXCEPT !.renames = @ (-) One(r), !.logged = msg]

\* commitRename: the request was answered with res.ok, the store is renamed
RenameOk ==
  \E r \in BagToSet(ui.renames) :
    /\ store' = renameTrack(store, r.index, r.newName, ServerFilename(r.newFilename))
    /\ eng' = Notify(eng, store')
    /\ ui' = redrawGridAndNotes([ui EXCEPT !.renames = @ (-) One(r)], store')
    /\ UNCHANGED <<plays, loads, userActive>>

\* commitRename: the request was answered with an error status
RenameRejected ==
  \E r \in BagToSet(ui.renames) :
    /\ ui' = renameFailed(ui, r, "Rename failed:")
    /\ UNCHANGED <<eng, store, plays, loads, userActive>>

\* commitRename: fetch or res.json() threw
RenameThrew ==
  \E r \in BagToSet(ui.renames) :
    /\ ui' = renameFailed(ui, r, "Rename error:")
    /\ UNCHANGED <<eng, store, plays, loads, userActive>>

\* The user stops interacting with the page
Quiesce ==
  /\ userActive
  /\ userActive' = FALSE
  /\ UNCHANGED <<eng, store, plays, loads, ui>>

----------------------------------------------------------------------------
\* useJobPolling. ui.poll is the state of one instance of the hook: its props
\* jobId and generation, its data, intervalRef (the job and generation the
\* poll closure of the armed interval was created for), the requests in
\* flight net, and terminal, which records that a response of the current job
\* and generation with status complete or failed was handled since the effect
\* last ran.

JobIds == {"a", "b"}

\* What a response with res.ok tells: status, and whether the job has musical
\* segments and a non-empty action log
Bodies ==
  [status : {"pending", "processing", "failed"}, music : {FALSE},
   actions : {FALSE}]
    \cup [status : {"complete"}, music : BOOLEAN, actions : BOOLEAN]

Terminal(status) == status \in {"complete", "failed"}

\* poll() up to its await of fetch
fetchJob(p, job, gen) == [p EXCEPT !.net = @ (+) One([job |-> job, gen |-> gen])]

\* The cleanup of the effect
cleanupPolling(p) ==
  IF p.intervalRef # NoInterval THEN [p EXCEPT !.intervalRef = NoInterval] ELSE p

\* The effect for new props, after the cleanup of the previous one
useJobPolling(p, jobId, generation) ==
  LET p1 == [cleanupPolling(p) EXCEPT !.jobId = jobId,
                                      !.generation = generation,
                                      !.terminal = FALSE]
  IN IF jobId = NoJob
     THEN [p1 EXCEPT !.data = NoData]
     ELSE [fetchJob(p1, jobId, generation)
             EXCEPT !.intervalRef = [job |-> jobId, gen |-> generation]]

\* Variant: a network error stops the polling
pollThrewStops(p, q) ==
  [p EXCEPT !.net = @ (-) One(q), !.intervalRef = NoInterval]

\* poll(): fetch threw; the catch block keeps polling
pollThrew(p, q) == [p EXCEPT !.net = @ (-) One(q)]

\* poll(): the response has res.ok false
pollNotOk(p, q) == [p EXCEPT !.net = @ (-) One(q)]

\* poll(): the response of request q is ok and carries body
pollOk(p, q, body) ==
  LET p1 == [p EXCEPT !.net = @ (-) One(q),
                      !.data = IF p.mounted
                               THEN [job |-> q.job, gen |-> q.gen,
                                     status |-> body.status,
                                     music |-> body.music,
                                     actions |-> body.actions]
                               ELSE @]
  IN IF Terminal(body.status)
     THEN [cleanupPolling(p1) EXCEPT
             !.terminal = @ \/ (q.job = p.jobId /\ q.gen = p.generation)]
     ELSE p1

\* The host sets the job id of a hook that polls nothing
StartPolling ==
  \E j \in JobIds :
    /\ ui.poll.mounted
    /\ ui.poll.jobId = NoJob
    /\ \A q \in BagToSet(ui.poll.net) : q.job = j
    /\ BagCardinality(ui.poll.net) < MaxInFlight
    /\ ui' = [ui EXCEPT !.poll = useJobPolling(@, j, @.generation)]
    /\ UNCHANGED <<eng, store, plays, loads, userActive>>

\* The host clears the job id
ClearJob ==
  /\ ui.poll.mounted
  /\ ui.poll.jobId # NoJob
  /\ ui' = [ui EXCEPT !.poll = useJobPolling(@, NoJob, @.generation)]
  /\ UNCHANGED <<eng, store, plays, loads, userActive>>

\* The host passes another job id or the next generation
ChangeJob ==
  \E j \in JobIds, g \in 0..1 :
    /\ ui.poll.mounted
    /\ <<j, g>> # <<ui.poll.jobId, ui.poll.generation>>
    /\ g >= ui.poll.generation
    /\ BagCardinality(ui.poll.net) < MaxInFlight
    /\ ui' = [ui EXCEPT !.poll = useJobPolling(@, j, g)]
    /\ UNCHANGED <<eng, store, plays, loads, userActive>>

\* The interval fires: poll() issues the next request
IntervalFire ==
  /\ ui.poll.intervalRef # NoInterval
  /\ BagCardinality(ui.poll.net) < MaxInFlight
  /\ ui' = [ui EXCEPT !.poll = fetchJob(@, @.intervalRef.job, @.intervalRef.gen)]
  /\ UNCHANGED <<eng, store, plays, loads, userActive>>

PollOk ==
  \E q \in BagToSet(ui.poll.net), body \in Bodies :
    /\ ui' = [ui EXCEPT !.poll = pollOk(@, q, body)]
    /\ UNCHANGED <<eng, store, plays, loads, userActive>>

PollNotOk ==
  \E q \in BagToSet(ui.poll.net) :
    /\ ui' = [ui EXCEPT !.poll = pollNotOk(@, q)]
    /\ UNCHANGED <<eng, store, plays, loads, userActive>>

PollThrew ==
  \E q \in BagToSet(ui.poll.net) :
    /\ ui' = [ui EXCEPT !.poll = pollThrew(@, q)]
    /\ UNCHANGED <<eng, store, plays, loads, userActive>>

\* The component that uses the hook unmounts
PollUnmount ==
  /\ ui.poll.mounted
  /\ ui' = [ui EXCEPT !.poll = [cleanupPolling(@) EXCEPT !.mounted = FALSE]]
  /\ UNCHANGED <<eng, store, plays, loads, userActive>>

----------------------------------------------------------------------------
\* The recording pipeline: VoiceInputCard with useAudioRecorder, the upload,
\* ProcessingOverlay with its own instance of useJobPolling (ui.overlay), and
\* the effects of the page that depend on the phase

\* LayerPanel shows the card in these phases
CardPhases == {"empty", "recording", "review"}

\* What is mounted for the phase of s: the card (LayerPanel), the overlay
\* (TimelineArea). A component that appears starts from its initial state;
\* the overlay's hook runs its effect for the job id of the store.
renderPhase(u, s) ==
  [u EXCEPT
     !.card = IF s.phase \in CardPhases
              THEN (IF @.mounted THEN @ ELSE FreshCard)
              ELSE NoCard,
     !.overlay = IF s.phase = "processing"
                 THEN (IF @.mounted THEN @
                       ELSE useJobPolling(FreshHook, s.jobId, 0))
                 ELSE [cleanupPolling(@) EXCEPT !.mounted = FALSE,
                                                !.net = EmptyBag]]

\* The cleanup of the startup effect sets the cancelled flag of its check
Cancelled(l) ==
  IF l.kind = "startup" /\ l.pc = "fetch" THEN [l EXCEPT !.cancelled = TRUE]
  ELSE l

CancelChecks(L) ==
  [r \in { Cancelled(l) : l \in DOMAIN L } |->
     BagCardinality([l \in { x \in DOMAIN L : Cancelled(x) = r } |-> L[l]])]

\* The two effects of the page with dependency [phase], when the store goes
\* from s to s1: the saved-track check in phase empty, the track load on
\* entering the editor with no tracks
pageEffects(L, s, s1) ==
  IF s1.phase = s.phase THEN L
  ELSE CancelChecks(L) (+)
         (IF s1.phase = "empty" THEN One(SavedCheck)
          ELSE IF s1.phase = "editor" /\ s1.tracks = <<>>
               THEN One(LoadCall("entry"))
               ELSE EmptyBag)

\* The step every handler of the pipeline ends with: the store change s1 is
\* rendered and the effects of the page run
Commit(u, s1) ==
  /\ store' = s1
  /\ eng' = Notify(eng, s1)
  /\ ui' = renderTrackCanvas(renderPhase(u, s1), s1)
  /\ loads' = pageEffects(loads, store, s1)
  /\ UNCHANGED <<plays, userActive>>

MicErrors ==
  {"Microphone access denied.", "No microphone found.",
   "Could not access microphone."}

startRecording(c) ==
  [c EXCEPT !.error = "null", !.recorderState = "requesting", !.mic = @ + 1]

stopRecording(c) ==
  [c EXCEPT !.recorder = IF @ = "recording" THEN "stopping" ELSE @,
            !.timer = FALSE,
            !.recorderState = "idle"]

\* The catch of getUserMedia
micRejected(c, msg) ==
  [c EXCEPT !.mic = @ - 1, !.recorderState = "idle", !.error = msg]

\* The then of getUserMedia
micGranted(c) ==
  [c EXCEPT !.mic = @ - 1, !.recorder = "recording",
            !.recorderState = "recording", !.timer = TRUE]

HandleStart ==
  /\ ui.card.mounted
  /\ ui.card.voiceState = "ready"
  /\ ui.card.mic < MaxInFlight
  /\ ui' = [ui EXCEPT !.card = [startRecording(@) EXCEPT !.voiceState = "recording"]]
  /\ UNCHANGED <<eng, store, plays, loads, userActive>>

MicGranted ==
  /\ ui.card.mic > 0
  /\ ui' = [ui EXCEPT !.card = micGranted(@)]
  /\ UNCHANGED <<eng, store, plays, loads, userActive>>

MicDenied ==
  \E msg \in MicErrors :
    /\ ui.card.mic > 0
    /\ ui' = [ui EXCEPT !.card = micRejected(@, msg)]
    /\ UNCHANGED <<eng, store, plays, loads, userActive>>

\* handleStop of the card
HandleStopRecording ==
  /\ ui.card.mounted
  /\ ui.card.voiceState = "recording"
  /\ ui' = [ui EXCEPT !.card = stopRecording(@)]
  /\ UNCHANGED <<eng, store, plays, loads, userActive>>

\* recorder.onstop with handleRecordingComplete
RecorderStopped ==
  /\ ui.card.recorder = "stopping"
  /\ Commit([ui EXCEPT !.card.recorder = "inactive",
                        !.card.voiceState = "review"],
            setRecordedFile(store, TRUE))

HandleFileSelect ==
  /\ ui.card.mounted
  /\ ui.card.voiceState = "ready"
  /\ Commit([ui EXCEPT !.card.voiceState = "review"],
            setRecordedFile(store, TRUE))

HandleDiscard ==
  /\ ui.card.mounted
  /\ ui.card.voiceState = "review"
  /\ Commit([ui EXCEPT !.card.voiceState = "ready"],
            setRecordedFile(store, FALSE))

\* handleUpload up to its await of fetch
HandleUpload ==
  /\ ui.card.mounted
  /\ ui.card.voiceState = "review"
  /\ store.recordedFile
  /\ ui.uploads < MaxInFlight
  /\ BagCardinality(loads) < MaxInFlight
  /\ Commit([ui EXCEPT !.uploads = @ + 1],
            setPhase(setJobId(store, NoJob), "processing"))

\* handleUpload: the upload answered with a job id
UploadOk ==
  \E j \in JobIds :
    /\ ui.uploads > 0
    /\ Commit([ui EXCEPT !.uploads = @ - 1,
                          !.overlay = IF @.mounted THEN useJobPolling(@, j, 0)
                                      ELSE @],
              setJobId(store, j))

\* Variant: a failed upload leaves the phase alone
UploadFailedStays ==
  /\ ui.uploads > 0
  /\ Commit([ui EXCEPT !.uploads = @ - 1], store)

\* handleUpload: fetch threw or the response is not ok
UploadFailed ==
  /\ ui.uploads > 0
  /\ Commit([ui EXCEPT !.uploads = @ - 1], setPhase(store, "empty"))

\* The effect of ProcessingOverlay for the data of its hook
overlayEffect(s, job) ==
  IF job = NoData THEN s
  ELSE IF job.status = "complete"
  THEN (IF ~job.music /\ ~job.actions
        THEN setErrorMessage(setPhase(s, "empty"), "No musical content")
        ELSE setPhase(s, "editor"))
  ELSE IF job.status = "failed"
  THEN setErrorMessage(setPhase(s, "empty"), "Something went wrong")
  ELSE s

OverlayIntervalFire ==
  /\ ui.overlay.intervalRef # NoInterval
  /\ BagCardinality(ui.overlay.net) < MaxInFlight
  /\ ui' = [ui EXCEPT !.overlay = fetchJob(@, @.intervalRef.job, @.intervalRef.gen)]
  /\ UNCHANGED <<eng, store, plays, loads, userActive>>

\* A response for the overlay's hook, then the overlay's effect
OverlayPollOk ==
  \E q \in BagToSet(ui.overlay.net), body \in Bodies :
    LET o1 == pollOk(ui.overlay, q, body)
    IN Commit([ui EXCEPT !.overlay = o1], overlayEffect(store, o1.data))

OverlayPollNotOk ==
  \E q \in BagToSet(ui.overlay.net) :
    /\ ui' = [ui EXCEPT !.overlay = pollNotOk(@, q)]
    /\ UNCHANGED <<eng, store, plays, loads, userActive>>

OverlayPollThrew ==
  \E q \in BagToSet(ui.overlay.net) :
    /\ ui' = [ui EXCEPT !.overlay = pollThrew(@, q)]
    /\ UNCHANGED <<eng, store, plays, loads, userActive>>

----------------------------------------------------------------------------
\* Track loading: checkSavedTracks at startup, reloadTracks after an edit

\* The store updates of a load, once the saved tracks are fetched and parsed
applyLoad(s, kind, res) ==
  LET s1 == setCurrentTime(
              setTotalDuration(
                setTimeSignature(setBpm(setTracks(s, res.tracks), res.bpm),
                                 res.timeSignature),
                res.duration), 0)
  IN IF kind = "startup" THEN setPhase(s1, "editor") ELSE s1

\* Where a loadTracks call stands after running up to its next await
AfterAdvance(ld, r) ==
  IF r.i > Len(ld.tracks) THEN EmptyBag
  ELSE One([ld EXCEPT !.pc = "voice", !.i = r.i])

\* Variant: the tracks parsed before the failure are put in the store
LoadFailedPartial ==
  \E l \in BagToSet(loads), res \in SavedResults :
    /\ l.pc = "fetch"
    /\ loads' = loads (-) One(l)
    /\ store' = setTracks(store, SubSeq(res.tracks, 1, 1))
    /\ eng' = Notify(eng, store')
    /\ UNCHANGED <<plays, userActive, ui>>

\* loadAllSavedTracks threw: the load is abandoned
LoadFailed ==
  \E l \in BagToSet(loads) :
    /\ l.pc = "fetch"
    /\ loads' = loads (-) One(l)
    /\ UNCHANGED <<eng, store, plays, userActive, ui>>

\* loadAllSavedTracks resolved with no saved track at startup
LoadNothing ==
  \E l \in BagToSet(loads) :
    /\ l.pc = "fetch"
    /\ l.kind = "startup"
    /\ loads' = loads (-) One(l)
    /\ UNCHANGED <<eng, store, plays, userActive, ui>>

\* loadAllSavedTracks resolved for a check or a load whose effect has been
\* cleaned up: it returns at its test of cancelled
LoadCancelled ==
  \E l \in BagToSet(loads) :
    /\ l.pc = "fetch"
    /\ l.cancelled
    /\ loads' = loads (-) One(l)
    /\ UNCHANGED <<eng, store, plays, userActive, ui>>

\* loadAllSavedTracks resolved with res: store update, then loadTracks up to
\* its first await
Delivered(l, res) ==
  /\ l.pc = "fetch"
  /\ ~l.cancelled
  /\ l.kind = "startup" => res.tracks # <<>>
  /\ LET ld == [l EXCEPT !.tracks = res.tracks]
         s1 == applyLoad(store, ld.kind, res)
         e1 == Notify(eng, s1)
     IN /\ store' = s1
        /\ IF e1.Tone
           THEN LET r == loadTracksBody(e1, res.tracks)
                IN /\ eng' = r.e
                   /\ loads' = Supersede(loads (-) One(l)) (+) AfterAdvance(ld, r)
           ELSE /\ eng' = e1
                /\ loads' = (loads (-) One(l)) (+) One([ld EXCEPT !.pc = "deps"])
        /\ ui' = redrawGridAndNotes(renderItems(renderPhase(ui, s1), s1.tracks), s1)
  /\ UNCHANGED <<plays, userActive>>

LoadFetched ==
  \E l \in BagToSet(loads), res \in SavedResults \cup {loadAllSavedTracks(<<>>)} :
    Delivered(l, res)

\* loadAllSavedTracks resolved for one of the listings
LoadListed ==
  \E l \in BagToSet(loads), entries \in Listings :
    Delivered(l, loadAllSavedTracks(entries))

\* loadTracks: the imports resolved
LoadDepsLoaded ==
  \E l \in BagToSet(loads) :
    /\ l.pc = "deps"
    /\ LET r == loadTracksBody(eng, l.tracks)
       IN /\ eng' = r.e
          /\ loads' = Supersede(loads (-) One(l)) (+) AfterAdvance(l, r)
    /\ UNCHANGED <<store, plays, userActive, ui>>

\* loadTracks: the awaited melodic voice arrived
LoadVoice ==
  \E l \in BagToSet(loads) :
    /\ l.pc = "voice"
    /\ LET ld == l
           e1 == setChannel(eng, ld.tracks[ld.i].index,
                            Channel("melodic", ld.superseded))
           r  == AdvanceDrums(e1, ld.tracks, ld.i + 1, ld.superseded)
       IN /\ eng' = r.e
          /\ loads' = (loads (-) One(l)) (+) AfterAdvance(ld, r)
    /\ UNCHANGED <<store, plays, userActive, ui>>

\* loadTracks: the requested voice failed to load; the catch block awaits the
\* default piano
LoadVoiceFailed ==
  \E l \in BagToSet(loads) :
    /\ l.pc = "voice"
    /\ loads' = (loads (-) One(l)) (+) One([l EXCEPT !.pc = "fallback"])
    /\ UNCHANGED <<eng, store, plays, userActive, ui>>

\* loadTracks: the default piano arrived
LoadFallback ==
  \E l \in BagToSet(loads) :
    /\ l.pc = "fallback"
    /\ LET e1 == setChannel(eng, l.tracks[l.i].index,
                            FallbackChannel(l.superseded))
           r  == AdvanceDrums(e1, l.tracks, l.i + 1, l.superseded)
       IN /\ eng' = r.e
          /\ loads' = (loads (-) One(l)) (+) AfterAdvance(l, r)
    /\ UNCHANGED <<store, plays, userActive, ui>>

\* loadTracks: the default piano failed to load too; the rejection leaves the
\* catch block, loadTracks rejects and its caller logs the error
LoadFallbackFailed ==
  \E l \in BagToSet(loads) :
    /\ l.pc = "fallback"
    /\ loads' = loads (-) One(l)
    /\ UNCHANGED <<eng, store, plays, userActive, ui>>

\* reloadTracks up to its await of loadAllSavedTracks
ReloadBegin ==
  /\ userActive
  /\ store.phase = "editor"
  /\ InFlight < MaxInFlight
  /\ store' = setPlaying(store, FALSE)
  /\ eng' = Notify(stop(eng), store')
  /\ loads' = loads (+) One(LoadCall("reload"))
  /\ ui' = renderTrackCanvas(ui, store')
  /\ UNCHANGED <<plays, userActive>>

----------------------------------------------------------------------------
\* The page: transport handlers, track loads, the transport clock
Next ==
  \/ Tick
  \/ FireNote
  \/ FireEnd
  \/ RafTick
  \/ HandlePlay
  \/ PlayDepsLoaded
  \/ PlayCtxStarted
  \/ HandleStop
  \/ HandleSeek
  \/ LoadFailed
  \/ LoadNothing
  \/ LoadFetched
  \/ LoadDepsLoaded
  \/ LoadVoice
  \/ ReloadBegin

Spec == Init /\ [][Next]_vars

\* Playback with the layer panel's mute and visibility toggles
MuteNext ==
  \/ Tick
  \/ FireNote
  \/ FireEnd
  \/ HandlePlay
  \/ PlayDepsLoaded
  \/ PlayCtxStarted
  \/ ToggleMute
  \/ ToggleVisible
  \/ LoadFailed
  \/ LoadNothing
  \/ LoadFetched
  \/ LoadDepsLoaded
  \/ LoadVoice

MuteSpec == Init /\ [][MuteNext]_vars

\* The page with a user who may stop interacting; while the audio context
\* runs, the transport clock advances and due callbacks are invoked
QuietNext == Next \/ Quiesce

FairSpec ==
  /\ Init
  /\ [][QuietNext]_vars
  /\ WF_vars(Tick)
  /\ WF_vars(FireNote)
  /\ WF_vars(FireEnd)

\* Track loads whose voice requests may fail, with the layer panel's toggles
VoiceNext ==
  \/ LoadFailed
  \/ LoadNothing
  \/ LoadFetched
  \/ LoadDepsLoaded
  \/ LoadVoice
  \/ LoadVoiceFailed
  \/ LoadFallback
  \/ LoadFallbackFailed
  \/ ReloadBegin
  \/ ToggleMute

VoiceSpec == Init /\ [][VoiceNext]_vars

\* The startup load of any listing, then the layer panel's mute and hide
StoreNext ==
  \/ LoadFailed
  \/ LoadNothing
  \/ LoadListed
  \/ LoadDepsLoaded
  \/ LoadVoice
  \/ ToggleMute
  \/ ToggleVisible

StoreSpec == Init /\ [][StoreNext]_vars

\* Loading and playing the saved take, and its drum kit played note by note
DrumNext ==
  \/ Tick
  \/ FireNote
  \/ FireEnd
  \/ HandlePlay
  \/ PlayDepsLoaded
  \/ PlayCtxStarted
  \/ LoadFetched
  \/ LoadDepsLoaded
  \/ LoadVoice
  \/ KitPlay

DrumSpec == Init /\ [][DrumNext]_vars

\* The startup load of any listing, then muting, hiding, scrolling, resizing
RenderNext ==
  \/ LoadListed
  \/ LoadDepsLoaded
  \/ LoadVoice
  \/ ToggleMute
  \/ ToggleVisible
  \/ Scroll
  \/ Resize

RenderSpec == Init /\ [][RenderNext]_vars

\* The startup load of any listing, then the layer panel's renaming
RenameNext ==
  \/ LoadFailed
  \/ LoadNothing
  \/ LoadListed
  \/ LoadDepsLoaded
  \/ LoadVoice
  \/ StartEdit
  \/ TypeName
  \/ CancelEdit
  \/ CommitRename
  \/ RenameOk
  \/ RenameRejected
  \/ RenameThrew

RenameSpec == Init /\ [][RenameNext]_vars

\* Playback with the frame loops, whose effects are set up and torn down
FrameNext ==
  \/ Tick
  \/ FireNote
  \/ FireEnd
  \/ HandlePlay
  \/ PlayDepsLoaded
  \/ PlayCtxStarted
  \/ LoadFailed
  \/ LoadNothing
  \/ LoadFetched
  \/ LoadDepsLoaded
  \/ LoadVoice
  \/ ClockFrame
  \/ PlayheadFrame
  \/ Unmount
  \/ CleanupLoops
  \/ SetupLoops

FrameSpec == Init /\ [][FrameNext]_vars

\* One instance of useJobPolling polling one job at a time, with no response
\* of another job in flight
PollNext ==
  \/ StartPolling
  \/ ClearJob
  \/ IntervalFire
  \/ PollOk
  \/ PollNotOk
  \/ PollThrew
  \/ PollUnmount

PollSpec == Init /\ [][PollNext]_vars

\* The same with a host that changes the job id or the generation at any time
SwitchNext == PollNext \/ ChangeJob

SwitchSpec == Init /\ [][SwitchNext]_vars

\* The way from the card to the editor: recording, upload, processing
PipelineNext ==
  \/ HandleStart
  \/ MicGranted
  \/ MicDenied
  \/ HandleStopRecording
  \/ RecorderStopped
  \/ HandleFileSelect
  \/ HandleDiscard
  \/ HandleUpload
  \/ UploadOk
  \/ UploadFailed
  \/ OverlayIntervalFire
  \/ OverlayPollOk
  \/ OverlayPollNotOk
  \/ OverlayPollThrew
  \/ LoadFailed
  \/ LoadNothing
  \/ LoadCancelled
  \/ LoadListed
  \/ LoadDepsLoaded
  \/ LoadVoice

PipelineSpec == Init /\ [][PipelineNext]_vars

----------------------------------------------------------------------------
\* Properties of the transport operations

View(e) == [e EXCEPT !.lastOp = "none", !.heard = Unheard]

NoteEvents(e) == { ev \in e.transport.timeline : ev.kind = "note" }

TrackPos(tracks, idx) == CHOOSE p \in DOMAIN tracks : tracks[p].index = idx

NothingScheduled(e) ==
  /\ e.transport.timeline = {}
  /\ e.scheduledEvents = <<>>
  /\ e.endEventId = NoId

Idle(e) ==
  /\ getTransportState(e) = "stopped"
  /\ getTransportSeconds(e) = 0
  /\ NothingScheduled(e)

\* C1: every not-yet-fired event on the transport belongs to the most recent
\* schedule; a stop, or a seek that does not replay, leaves none; a play or
\* seek from any reachable state leaves only events of its own schedule.
C1_SingleSchedule ==
  /\ \A ev \in Unfired(eng) : ev.gen = eng.gen
  /\ eng.lastOp = "stop" => Unfired(eng) = {}
  /\ (eng.lastOp = "seek" /\ eng.transport.state # "started") => Unfired(eng) = {}
  /\ Unfired(stop(eng)) = {}
  /\ \A tr \in TrackSets, t \in FromTimes :
       /\ \A ev \in Unfired(play(eng, tr, t)) : ev.gen = eng.gen + 1
       /\ \A ev \in Unfired(seek(eng, tr, t)) : ev.gen = eng.gen + 1

\* A second schedule is pending after an earlier one was made
C1_Witness == eng.gen >= 2 /\ Unfired(eng) # {} /\ NoteEvents(eng) # {}

\* C2: play never schedules a note-on for a note that ended strictly before fromTime.
C2_NoEndedNote ==
  \A tr \in TrackSets, t \in FromTimes :
    \A ev \in NoteEvents(play(eng, tr, t)) :
      ~(NoteEnd(tr, <<TrackPos(tr, ev.track), ev.n>>) < t)

\* A seek during playback left out a note that ended before the new position
C2_Witness ==
  /\ eng.lastOp = "seek"
  /\ eng.transport.state = "started"
  /\ eng.transport.seconds = 0
  /\ NoteEvents(eng) # {}
  /\ \E pn \in NotePairs(store.tracks) :
       /\ store.tracks[pn[1]].index \in DOMAIN eng.trackChannels
       /\ NoteEnd(store.tracks, pn) < store.transport.currentTime
       /\ ~\E ev \in NoteEvents(eng) :
             ev.track = store.tracks[pn[1]].index /\ ev.n = pn[2]

\* C3: once ensureStarted has completed, play schedules exactly one note-on for
\* every note whose end is >= fromTime, at offset max(0, start - fromTime), with
\* the clock reset to zero, in every reachable engine state.
C3_EveryNoteScheduled ==
  (eng.Tone /\ eng.started) =>
    \A tr \in TrackSets, t \in FromTimes :
      LET r == play(eng, tr, t)
      IN /\ r.transport.seconds = 0
         /\ \A pn \in NotePairs(tr) :
              ~(NoteEnd(tr, pn) < t) =>
                Cardinality({ ev \in NoteEvents(r) :
                                /\ ev.track = tr[pn[1]].index
                                /\ ev.n = pn[2]
                                /\ ev.time = Max(0, tr[pn[1]].notes[pn[2]].time - t) }) = 1

\* C5: while the transport is started, seek equals stop followed by play;
\* otherwise seek leaves nothing scheduled.
C5_SeekIsStopPlay ==
  \A tr \in TrackSets, t \in FromTimes :
    IF getTransportState(eng) = "started"
    THEN View(seek(eng, tr, t)) = View(play(stop(eng), tr, t))
    ELSE NothingScheduled(seek(eng, tr, t))

\* A seek during playback has replayed
C5_Witness ==
  /\ eng.lastOp = "seek"
  /\ eng.transport.state = "started"
  /\ NoteEvents(eng) # {}

\* C6: stop leaves the transport stopped at clock zero with nothing scheduled,
\* a second stop changes nothing, and stop on an idle engine changes nothing.
C6_StopIdempotent ==
  LET r == stop(eng)
  IN /\ Idle(r)
     /\ stop(r) = r
     /\ Idle(eng) => View(r) = View(eng)

\* A stop has ended a playback
C6_Witness == eng.lastOp = "stop" /\ eng.gen >= 1 /\ Idle(eng)

NoNewFiring ==
  /\ \A ev \in eng.transport.timeline :
       \A ev2 \in eng'.transport.timeline :
         (ev.id = ev2.id /\ ev2.fired) => ev.fired
  /\ eng'.endFires <= eng.endFires

\* C7: pause leaves clock, scheduled events, voices and gains as they are, and
\* nothing fires while the transport is paused.
C7_PauseFrame ==
  /\ [](LET r == pause(eng)
        IN /\ r.transport.seconds = eng.transport.seconds
           /\ r.transport.timeline = eng.transport.timeline
           /\ r.scheduledEvents = eng.scheduledEvents
           /\ r.endEventId = eng.endEventId
           /\ r.trackChannels = eng.trackChannels)
  /\ [][(getTransportState(eng) = "paused"
           /\ getTransportState(eng') = "paused") => NoNewFiring]_vars

\* A playback is paused midway with events still to fire
C7_Witness ==
  /\ eng.lastOp = "pause"
  /\ eng.transport.state = "paused"
  /\ eng.transport.seconds > 0
  /\ Unfired(eng) # {}

----------------------------------------------------------------------------
\* Properties of playback

\* The live tracks changed in their muted / visible flags only
FlagsOnlyChange ==
  /\ store'.tracks # store.tracks
  /\ DOMAIN store'.tracks = DOMAIN store.tracks
  /\ \A p \in DOMAIN store.tracks :
       [store'.tracks[p] EXCEPT !.muted = FALSE, !.visible = TRUE]
         = [store.tracks[p] EXCEPT !.muted = FALSE, !.visible = TRUE]

\* C4: a note-on that fires sounds exactly when its track is unmuted and
\* visible in the live store at that moment, and a mute or visibility toggle
\* changes nothing that is scheduled.
C4_LiveMuteCheck ==
  [][/\ \A ev \in eng.transport.timeline :
          \A ev2 \in eng'.transport.timeline :
            (ev.id = ev2.id /\ ev.kind = "note" /\ ~ev.fired /\ ev2.fired)
              => /\ eng'.heard.id = ev.id
                 /\ eng'.heard.snd = LiveAudible(store, ev.track)
     /\ FlagsOnlyChange =>
          /\ eng'.transport.timeline = eng.transport.timeline
          /\ eng'.scheduledEvents = eng.scheduledEvents
          /\ eng'.endEventId = eng.endEventId]_vars

\* A note-on has fired against flags other than those captured at scheduling
C4_Witness ==
  \E ev \in NoteEvents(eng) :
    ev.fired /\ eng.heard.id = ev.id /\ eng.heard.snd # ev.capAudible

EndedState ==
  /\ eng.endFires = 1
  /\ Idle(eng)
  /\ ~store.transport.playing
  /\ store.transport.currentTime = 0

\* C8: once playback runs and the user has stopped interacting, the end event
\* eventually fires; it fires once per schedule, after every note-on of that
\* schedule, and leaves engine and store stopped at time zero.
C8_EndEventFires ==
  /\ (Running(eng) /\ ~userActive) ~> EndedState
  /\ [][eng'.endFires > eng.endFires =>
          /\ eng.endFires = 0
          /\ \A ev \in NoteEvents(eng) : ev.fired
          /\ EndedState']_vars

\* The end event has ended a playback that sounded a note
C8_Witness ==
  /\ EndedState
  /\ ~userActive
  /\ eng.gen >= 1
  /\ eng.lastOp = "stop"

EngState(e) ==
  IF ~e.Tone THEN "uninitialized"
  ELSE IF e.transport.state = "started" THEN "playing"
  ELSE IF e.transport.state = "paused" THEN "paused"
  ELSE "idle"

EngStates == {"uninitialized", "idle", "playing", "paused"}

Edges ==
  { <<"uninitialized", "idle">>, <<"idle", "playing">>, <<"playing", "idle">>,
    <<"playing", "paused">>, <<"paused", "playing">> }
    \cup { <<q, "idle">> : q \in EngStates }
    \cup { <<q, q>> : q \in EngStates }

\* C9: the engine state moves along uninitialized -> idle, idle <-> playing,
\* playing <-> paused and any -> idle only, under every step and under every
\* public operation applied to a reachable state, and a scheduled callback
\* fires in the playing state only.
C9_StateMachine ==
  /\ [](/\ \A tr \in TrackSets, t \in FromTimes :
             /\ <<EngState(eng), EngState(play(eng, tr, t))>> \in Edges
             /\ <<EngState(eng), EngState(seek(eng, tr, t))>> \in Edges
             /\ <<EngState(eng), EngState(loadTracksBody(eng, tr).e)>> \in Edges
        /\ <<EngState(eng), EngState(pause(eng))>> \in Edges
        /\ <<EngState(eng), EngState(stop(eng))>> \in Edges
        /\ EngState(stop(eng)) \in {"idle", "uninitialized"}
        /\ \A i \in 0..1, m \in BOOLEAN :
             EngState(setTrackMute(eng, i, m)) = EngState(eng))
  /\ [][/\ <<EngState(eng), EngState(eng')>> \in Edges
        /\ EngState(eng) # "playing" => NoNewFiring]_vars

\* The engine is back in the playing state after a pause
C9_Witness ==
  /\ EngState(eng) = "playing"
  /\ eng.gen >= 2
  /\ \E ev \in NoteEvents(eng) : ev.fired

\* C10: the audio context start is performed at most once, and the engine has
\* completed ensureStarted whenever the play handler has made it play.
C10_StartOnce ==
  /\ eng.startCalls <= 1
  /\ eng.gen >= 1 => eng.started

----------------------------------------------------------------------------
\* Properties of track loading

\* The loadTracks call l returns in this step
Completes(l) ==
  /\ l.pc \in {"deps", "voice", "fallback"}
  /\ loads' = loads (-) One(l)

\* The engine holds one voice per track of tracks, of the track's kind, and
\* no other
HoldsExactly(e, tracks) ==
  /\ DOMAIN e.trackChannels = { tracks[p].index : p \in DOMAIN tracks }
  /\ \A p \in DOMAIN tracks :
       e.trackChannels[tracks[p].index].kind =
         IF tracks[p].channel = DrumChannel THEN "drum" ELSE "melodic"

\* The indices the call l has still to set when it resumes from its await
ToSet(l) ==
  IF l.pc = "deps" THEN {}
  ELSE { l.tracks[p].index : p \in l.i..Len(l.tracks) }

\* C11: when a loadTracks call completes, the engine holds exactly one voice
\* per track of the call, of the right kind, and the call has replaced no
\* voice in the map that was never disposed.
C11_ExactVoices ==
  [][\A l \in BagToSet(loads) :
       Completes(l) =>
         /\ HoldsExactly(eng', l.tracks)
         /\ ToSet(l) \cap DOMAIN eng.trackChannels = {}]_vars

\* C12: a loadTracks call never ends without a voice, requested or default
\* piano, for each of its non-percussion tracks.
C12_NeverFails ==
  [][\A l \in BagToSet(loads) :
       Completes(l) =>
         \A p \in DOMAIN l.tracks :
           l.tracks[p].channel # DrumChannel =>
             /\ l.tracks[p].index \in DOMAIN eng'.trackChannels
             /\ eng'.trackChannels[l.tracks[p].index].voice
                  \in {"requested", "acoustic_grand_piano"}]_vars

\* C13: every live track that has a voice has gain 0 if it is muted in the
\* store and gain 1 otherwise.
C13_GainFollowsMute ==
  \A p \in DOMAIN store.tracks :
    store.tracks[p].index \in DOMAIN eng.trackChannels =>
      eng.trackChannels[store.tracks[p].index].gain =
        IF store.tracks[p].muted THEN 0 ELSE 1

----------------------------------------------------------------------------
\* Properties of the store and of the parsed track data

\* tracks[i].index = i for every position i, counted from 0
Dense(tracks) == \A p \in DOMAIN tracks : tracks[p].index = p - 1

\* Track indices the store operations are applied to: those of the live
\* tracks and one that no track has
Indices(s) == 0..Len(s.tracks)

\* C14: the live tracks are indexed densely from 0 in every store state; so
\* is every track list a parse or a stacked reload delivers, and toggleMute,
\* toggleVisible and renameTrack keep it so.
C14_DenseIndex ==
  /\ Dense(store.tracks)
  /\ \A entries \in ParseInputs :
       /\ Dense(loadAllSavedTracks(entries).tracks)
       /\ Dense(setTracks(store, loadAllSavedTracks(entries).tracks).tracks)
       /\ \A k \in DOMAIN entries : Dense(parseMidiToTracks(entries[k].midi).tracks)
  /\ \A i \in Indices(store) :
       /\ Dense(toggleMute(store, i).tracks)
       /\ Dense(toggleVisible(store, i).tracks)
       /\ \A nm \in NewNames :
            Dense(renameTrack(store, i, nm, ServerFilename(Underscored(nm))).tracks)

\* Stacked files are live, the second one's track muted and hidden
C14_Witness ==
  /\ Len(store.tracks) = 2
  /\ store.tracks[1].name = "lead"
  /\ store.tracks[2].index = 1
  /\ store.tracks[2].muted
  /\ ~store.tracks[2].visible

\* C15: in the store state setTracks leaves, viewport.totalDuration is the
\* largest note end of the new live tracks (0 without notes).
C15_DurationDerived ==
  \A entries \in Listings \cup {<<>>} :
    LET res == loadAllSavedTracks(entries)
    IN setTracks(store, res.tracks).viewport.totalDuration = maxEnd(res.tracks)

\* C16: in the store state setTracks leaves, transport.currentTime is 0.
C16_TimeReset ==
  \A res \in SavedResults :
    setTracks(store, res.tracks).transport.currentTime = 0

\* The store t is the store s but for the tracks that have the index i
SameButTrack(s, t, i) ==
  /\ t.phase = s.phase
  /\ t.transport = s.transport
  /\ t.viewport = s.viewport
  /\ DOMAIN t.tracks = DOMAIN s.tracks
  /\ \A p \in DOMAIN s.tracks : s.tracks[p].index # i => t.tracks[p] = s.tracks[p]

\* C17: toggleMute(i) flips the muted flag of the track with index i and
\* changes nothing else in the store, toggleVisible(i) does the same for the
\* visible flag, two equal toggles restore the store, and a toggle for an
\* index that no track has changes nothing.
C17_ToggleFrame ==
  \A i \in Indices(store) :
    LET m == toggleMute(store, i)
        v == toggleVisible(store, i)
    IN /\ SameButTrack(store, m, i)
       /\ SameButTrack(store, v, i)
       /\ \A p \in DOMAIN store.tracks :
            store.tracks[p].index = i =>
              /\ m.tracks[p] = [store.tracks[p] EXCEPT !.muted = ~@]
              /\ v.tracks[p] = [store.tracks[p] EXCEPT !.visible = ~@]
       /\ toggleMute(m, i) = store
       /\ toggleVisible(v, i) = store
       /\ (\A p \in DOMAIN store.tracks : store.tracks[p].index # i) =>
            (m = store /\ v = store)

\* The first of two live tracks is muted, the second one hidden
C17_Witness ==
  /\ Len(store.tracks) = 2
  /\ store.tracks[1].muted /\ store.tracks[1].visible
  /\ ~store.tracks[2].muted /\ ~store.tracks[2].visible

\* Every track has the palette color of its position, the palette being
\* cycled through
Colored(tracks) ==
  \A p \in DOMAIN tracks : tracks[p].color = TRACK_COLORS[((p - 1) % 16) + 1]

Colors(tracks) == [p \in DOMAIN tracks |-> tracks[p].color]

\* C18: the palette has 16 colors; the tracks every load delivers and the
\* live tracks of every store state have color palette[i mod 16]; renameTrack,
\* toggleMute and toggleVisible change no color.
C18_PaletteColor ==
  /\ Len(TRACK_COLORS) = 16
  /\ Colored(store.tracks)
  /\ \A entries \in ParseInputs :
       /\ Colored(loadAllSavedTracks(entries).tracks)
       /\ \A k \in DOMAIN entries : Colored(parseMidiToTracks(entries[k].midi).tracks)
  /\ \A i \in Indices(store) :
       /\ Colors(toggleMute(store, i).tracks) = Colors(store.tracks)
       /\ Colors(toggleVisible(store, i).tracks) = Colors(store.tracks)
       /\ \A nm \in NewNames :
            Colors(renameTrack(store, i, nm, ServerFilename(Underscored(nm))).tracks)
              = Colors(store.tracks)

\* The first live track has been renamed by an answered request
C18_Witness ==
  /\ Len(store.tracks) = 2
  /\ store.tracks[1].name \in NewNames
  /\ store.tracks[1].filename = "my_solo.mid"
  /\ store.tracks[2].color = "#F59E0B"

----------------------------------------------------------------------------
\* Properties of the playhead clock

\* A step that only writes currentTime, as the tick of useAnimationFrame does
ClockWrite ==
  /\ store' = setCurrentTime(store, getTransportSeconds(eng))
  /\ ui' = renderTrackCanvas(ui, store')
  /\ UNCHANGED <<eng, plays, loads, userActive>>

\* C19: while a playback goes on with no pause, stop, seek, end event or
\* track load, transport.currentTime never decreases, so it never falls below
\* the position the playback was started from.
C19_ClockMonotone ==
  [][(/\ store.transport.playing
      /\ store'.transport.playing
      /\ UNCHANGED <<eng, plays, loads>>)
       => store'.transport.currentTime >= store.transport.currentTime]_vars

\* C20: while transport.playing is true, currentTime is written by the tick
\* of useAnimationFrame only.
C20_OnlyClockWrites ==
  [][(/\ store.transport.playing
      /\ store'.transport.playing
      /\ store'.transport.currentTime # store.transport.currentTime)
       => ClockWrite]_vars

\* C21: once the loop effects are cleaned up, no frame callback of theirs is
\* pending, and no clock write or playhead redraw is ever made for an effect
\* instance after its cleanup.
C21_NoFrameAfterTeardown ==
  /\ ~ui.late
  /\ \A f \in ui.frames : Live(ui, f.inst)

\* The loops are torn down during a playback whose clock they had drawn
C21_Witness ==
  /\ ui.effects = "none"
  /\ ui.drawn > 0
  /\ store.transport.playing
  /\ eng.transport.seconds > store.transport.currentTime

----------------------------------------------------------------------------
\* Properties of the application phase and of track loads

PhaseEdges ==
  { <<"empty", "recording">>, <<"recording", "review">>,
    <<"review", "processing">>, <<"processing", "editor">>,
    <<"editor", "processing">> }

\* C22: the phase changes along empty -> recording -> review -> processing
\* -> editor and editor -> processing only.
C22_PhaseOrder ==
  [][store'.phase # store.phase => <<store.phase, store'.phase>> \in PhaseEdges]_vars

\* What a load applies to the store
Applied(s) ==
  [tracks |-> s.tracks, bpm |-> s.transport.bpm,
   timeSignature |-> s.transport.timeSignature,
   duration |-> s.viewport.totalDuration]

----------------------------------------------------------------------------
\* Properties of renaming a track

\* The name of the live track with index i
NameOf(s, i) == s.tracks[CHOOSE p \in DOMAIN s.tracks : s.tracks[p].index = i].name

\* C24: the name of a live track changes in the store only in the step that
\* takes the answer of a successful rename request for it; the step of a
\* rejected or thrown request leaves the store as it is and puts the name the
\* track had when the request was sent back into the edit field; committing
\* an empty or unchanged name sends no request.
C24_RenameAfterSuccess ==
  [][/\ \A p \in DOMAIN store.tracks \cap DOMAIN store'.tracks :
          store'.tracks[p].name # store.tracks[p].name =>
            \E r \in BagToSet(ui.renames) :
              /\ ui'.renames = ui.renames (-) One(r)
              /\ ui'.logged = ui.logged
              /\ r.index = store.tracks[p].index
              /\ store'.tracks[p].name = r.newName
     /\ (RenameRejected \/ RenameThrew) =>
          /\ store' = store
          /\ \E r \in BagToSet(ui.renames) :
               /\ ui'.renames = ui.renames (-) One(r)
               /\ ui'.items[r.index].editValue = r.prior
     /\ CommitRename =>
          \A i \in DOMAIN ui.items :
            (/\ ui.items[i].editing
             /\ trim(ui.items[i].editValue) \in {"", NameOf(store, i)})
              => ui'.renames = ui.renames]_vars

\* A rename request was rejected: the store has the old name, the edit field
\* shows it again
C24_Witness ==
  /\ ui.logged = "Rename failed:"
  /\ ui.renames = EmptyBag
  /\ Len(store.tracks) = 2
  /\ store.tracks[1].name = "lead"
  /\ ui.items[0] = [editing |-> FALSE, editValue |-> "lead"]

----------------------------------------------------------------------------
\* Properties of the end event

\* The end events pending on the transport of e
PendingEnd(e) == { ev \in Unfired(e) : ev.kind = "end" }

\* C29: from every reachable engine state with the runtime loaded, play leaves
\* one end event, at an offset of at least epsilon and strictly after every
\* note-on it scheduled, wherever fromTime lies.
C29_EndAfterNotes ==
  eng.Tone =>
    \A tr \in TrackSets, t \in FromTimes :
      LET r == play(eng, tr, t)
      IN /\ Cardinality(PendingEnd(r)) = 1
         /\ \A en \in PendingEnd(r) :
              /\ en.time >= Epsilon
              /\ \A ev \in NoteEvents(r) : en.time > ev.time

----------------------------------------------------------------------------
\* Properties of the drum kit

\* What a play of the drum kit sounds like: the synths triggered, each for
\* how long, whatever the velocity
Sound(calls) == [k \in DOMAIN calls |-> [synth |-> calls[k].synth, dur |-> calls[k].dur]]

Hear(synth, dur) == [synth |-> synth, dur |-> dur]

KickSound == << Hear("kick", 500) >>
SnareSound == << Hear("snareNoise", 120), Hear("snareBody", 80) >>
ClosedHatSound == << Hear("hihatNoise", 40) >>
OpenHatSound == << Hear("openHatNoise", 250) >>
CymbalSound == << Hear("cymbalNoise", 700) >>
TomSound == << Hear("tom", 200) >>
TickSound == << Hear("hihatNoise", 30) >>

\* C25: the sound the drum kit makes for a note depends on the note number
\* alone, not on the velocity or on the call: 38 and 40 are the snare, 49 is the
\* cymbal, and a drum note that fires during playback sounds as its number says.
C25_DispatchByNumber ==
  /\ \A n \in MidiNumbers :
       /\ toMidi(toNote(n)) = n
       /\ \A g1, g2 \in Gains :
            Sound(kitPlay(toNote(n), g1)) = Sound(kitPlay(toNote(n), g2))
  /\ \A g \in Gains :
       /\ Sound(kitPlay(toNote(38), g)) = SnareSound
       /\ Sound(kitPlay(toNote(40), g)) = SnareSound
       /\ Sound(kitPlay(toNote(49), g)) = CymbalSound
  /\ \A ev \in NoteEvents(eng) :
       (ev.fired /\ eng.heard.id = ev.id /\ eng.heard.snd /\ ev.voice = "drum")
         => \A g \in Gains : Sound(eng.heard.calls) = Sound(kitPlay(ev.name, g))

\* The snare hit of the saved take has fired during playback
C25_Witness ==
  /\ eng.transport.state = "started"
  /\ \E ev \in NoteEvents(eng) :
       /\ ev.fired /\ eng.heard.id = ev.id /\ ev.voice = "drum"
       /\ toMidi(ev.name) = 38
  /\ Sound(eng.heard.calls) = SnareSound

\* The sound the stated table gives a note number
TableSound(n) ==
  IF n \in {35, 36} THEN KickSound
  ELSE IF n \in {38, 40} THEN SnareSound
  ELSE IF n \in {42, 44} THEN ClosedHatSound
  ELSE IF n = 46 THEN OpenHatSound
  ELSE IF n \in {49, 51, 52, 55, 57, 59} THEN CymbalSound
  ELSE IF n \in 41..50 THEN TomSound
  ELSE TickSound

\* C26: for every note number 0..127 a loaded drum kit makes the sound of the
\* table: kick, snare, closed or open hi-hat, cymbal, tom, or the default tick.
C26_DrumTable ==
  \A i \in DOMAIN eng.trackChannels :
    eng.trackChannels[i].kind = "drum" =>
      \A n \in MidiNumbers, g \in Gains :
        Sound(kitPlay(toNote(n), g)) = TableSound(n)

----------------------------------------------------------------------------
\* Properties of the note layer and the grid layer

\* Track sets drawNotes is applied to: a zero-length note, pitches at and
\* beyond both ends of the range, notes at and beyond the right edge, a
\* muted track and a hidden one
DrawSet ==
  << Track(0, 0, << Pitched(0, 1, 60), Pitched(2, 0, 60), Pitched(1, 1, 20),
                    Pitched(1, 1, 21), Pitched(3, 1, 108), Pitched(3, 1, 109),
                    Pitched(100, 1, 60), Pitched(200, 1, 60), Pitched(250, 1, 60) >>),
     [Track(1, 0, << Pitched(0, 2, 64) >>) EXCEPT !.muted = TRUE],
     [Track(2, DrumChannel, << Hit(1, 1) >>) EXCEPT !.visible = FALSE] >>

\* Values of pixelsPerSecond drawNotes is applied to
Scales == {50, 100}

\* The notes that have a rectangle among R, as <<track index, note number>>
Keys(R) == { <<r.track, r.n>> : r \in R }

\* The closed interval of the note meets the closed visible window
\* [scrollX / pps, (scrollX + width) / pps]
InWindow(note, width, scrollX, pps) ==
  Max(note.time * pps, scrollX * 10)
    <= Min((note.time + note.duration) * pps, (scrollX + width) * 10)

\* C27: on the canvas and for every input, a note has a rectangle on the note
\* layer exactly if its track is visible, its interval meets the visible
\* window and its pitch is within 21..108; toggling a track's muted flag leaves
\* the set of drawn notes as it is.
C27_DrawSet ==
  /\ ui.mounted => Keys(ui.notes) = Keys(drawNotes(ui.width, store.viewport.scrollX,
                                                    store.viewport.pixelsPerSecond,
                                                    store.tracks))
  /\ \A tr \in {DrawSet, store.tracks}, pps \in Scales :
       LET R == drawNotes(ui.width, store.viewport.scrollX, pps, tr)
       IN /\ \A pn \in NotePairs(tr) :
               <<tr[pn[1]].index, pn[2]>> \in Keys(R)
                 <=> /\ tr[pn[1]].visible
                     /\ InWindow(tr[pn[1]].notes[pn[2]], ui.width,
                                 store.viewport.scrollX, pps)
                     /\ tr[pn[1]].notes[pn[2]].midi \in 21..108
          /\ \A p \in DOMAIN tr :
               Keys(drawNotes(ui.width, store.viewport.scrollX, pps,
                              [tr EXCEPT ![p].muted = ~@])) = Keys(R)

\* Scrolled by 20 pixels: the first track's note, ending at pixel 10, is
\* gone; the muted second track's note, ending at pixel 20, is drawn, dimmed
C27_Witness ==
  /\ store.viewport.scrollX = 20
  /\ Len(store.tracks) = 2
  /\ store.tracks[1].visible /\ store.tracks[2].visible /\ store.tracks[2].muted
  /\ Keys(ui.notes) = { <<1, 1>> }
  /\ \E r \in ui.notes : r.x = -10 /\ r.alpha = 32

\* C28: every rectangle of the note layer has x = startTime * pixelsPerSecond
\* - scrollX and width = duration * pixelsPerSecond, for all notes, scales and
\* scroll offsets.
C28_RectGeometry ==
  \A tr \in {DrawSet, store.tracks}, pps \in Scales :
    \A p \in DOMAIN tr :
      \A r \in drawNotes(ui.width, store.viewport.scrollX, pps, tr) :
        r.track = tr[p].index =>
          /\ r.x = Px(tr[p].notes[r.n].time, pps) - store.viewport.scrollX
          /\ r.w = Px(tr[p].notes[r.n].duration, pps)

\* The interval of bar b meets the closed visible window
BarInWindow(b, width, scrollX, pps, bpm, timeSignature) ==
  /\ b * 60 * timeSignature[1] * pps <= (scrollX + width) * bpm
  /\ (b + 1) * 60 * timeSignature[1] * pps >= scrollX * bpm

\* C30: the grid layer on the canvas holds the bar line and the beat lines of
\* a bar exactly if the bar's interval meets the visible window.
C30_BarsInWindow ==
  ui.mounted =>
    LET bars == { l.bar : l \in ui.grid.lines }
    IN \A b \in 0..(SetMax(bars) + 1) :
         (/\ b \in bars
          /\ \A k \in 0..(store.transport.timeSignature[1] - 1) :
               \E l \in ui.grid.lines : l.bar = b /\ l.beat = k)
           <=> BarInWindow(b, ui.width, store.viewport.scrollX,
                           store.viewport.pixelsPerSecond, store.transport.bpm,
                           store.transport.timeSignature)

----------------------------------------------------------------------------
\* Properties of the redraw triggers

\* What the grid layer and the note layer are drawn from
LayerInputs(s, u) ==
  [tracks |-> s.tracks, scrollX |-> s.viewport.scrollX,
   pixelsPerSecond |-> s.viewport.pixelsPerSecond, bpm |-> s.transport.bpm,
   timeSignature |-> s.transport.timeSignature, width |-> u.width]

\* C31: a step that changes none of tracks, scroll offset, pixelsPerSecond,
\* bpm, time signature and container width, such as one that changes only
\* transport.currentTime or transport.playing, makes no redraw of the grid
\* layer and the note layer.
C31_LayersDecoupled ==
  [][LayerInputs(store', ui') = LayerInputs(store, ui)
       => ui'.painted = ui.painted]_vars

----------------------------------------------------------------------------
\* C32: between event handlers the store's transport.playing is true exactly
\* when the engine transport is in the started state, under any interleaving
\* of the play toggle (with its await of ensureStarted), stop, seek, the end
\* event and a track reload.
C32_PlayingIffStarted ==
  store.transport.playing <=> getTransportState(eng) = "started"

\* A toggle still awaits ensureStarted while another one has started playback
C32_Witness ==
  /\ store.transport.playing
  /\ getTransportState(eng) = "started"
  /\ plays # EmptyBag

----------------------------------------------------------------------------
\* The timeline position sounding on the engine: the position the last play
\* started from plus the transport time elapsed since
StartFrom(e) ==
  LET ends == { ev \in e.transport.timeline :
                  ev.kind = "end" /\ ev.id = e.endEventId }
  IN IF ends = {} THEN 0 ELSE (CHOOSE ev \in ends : TRUE).startFrom

Sounding(e) == StartFrom(e) + getTransportSeconds(e)

\* A play made on a paused transport by the play/pause toggle
Resume ==
  /\ eng.transport.state = "paused"
  /\ eng.lastOp = "pause"
  /\ ~store.transport.playing
  /\ eng'.lastOp = "play"
  /\ eng'.gen = eng.gen + 1

\* C33: a resume through the play/pause toggle calls play with fromTime equal
\* to the position that was sounding at the pause, also for a playback that
\* was started from a non-zero position. The case taken is the one where
\* playback has advanced and the frame loop has written the clock value of
\* the pause into currentTime.
C33_ResumeWhereSounding ==
  [][(/\ Resume
      /\ getTransportSeconds(eng) > 0
      /\ store.transport.currentTime = getTransportSeconds(eng))
       => StartFrom(eng') = Sounding(eng)]_vars

----------------------------------------------------------------------------
\* Properties of the voices under loads that overlap playback or each other

\* A step in which loadTracks gets past loadDeps and runs disposeChannels on
\* a map that holds voices
DisposesVoices ==
  /\ LoadDepsLoaded \/ LoadFetched \/ LoadListed
  /\ eng'.Tone
  /\ DOMAIN eng.trackChannels # {}

\* C34: whenever loadTracks disposes the voices, no note-on scheduled against
\* them is still pending on the transport, also when the user has started
\* playback while the tracks of a reload were being fetched.
C34_NoPendingOnDisposed ==
  [][DisposesVoices => Unfired(eng') \cap NoteEvents(eng') = {}]_vars

\* No loadTracks call is past its fetch and unfinished
NoLoadTracksRunning == \A l \in BagToSet(loads) : l.pc = "fetch"

\* C35: once two overlapping loadTracks calls have both completed, no voice
\* allocated by the earlier call is in the map.
C35_LaterCallWins ==
  NoLoadTracksRunning =>
    \A i \in DOMAIN eng.trackChannels : ~eng.trackChannels[i].stale

----------------------------------------------------------------------------
\* Properties of job polling

\* The hook is mounted with a job id and has handled no terminal response of
\* that job since it began to poll it
PollingDue(p) == p.mounted /\ p.jobId # NoJob /\ ~p.terminal

Armed(p) == p.intervalRef = [job |-> p.jobId, gen |-> p.generation]

\* C36: polling of a job id keeps its interval armed, through network errors
\* and non-OK responses, until a response reports complete or failed; from
\* then on, and once the job id is cleared or the hook unmounted, no interval
\* is armed and no request is issued.
C36_PollUntilTerminal ==
  /\ [](PollingDue(ui.poll) => Armed(ui.poll))
  /\ [](~PollingDue(ui.poll) => ui.poll.intervalRef = NoInterval)
  /\ [][BagCardinality(ui'.poll.net) > BagCardinality(ui.poll.net)
          => PollingDue(ui'.poll) /\ (PollingDue(ui.poll) \/ StartPolling)]_vars

\* The polling of a job has stopped on a terminal response while another
\* request for the job is still in flight
C36_Witness ==
  /\ ui.poll.jobId # NoJob
  /\ ui.poll.terminal
  /\ ui.poll.intervalRef = NoInterval
  /\ ui.poll.net # EmptyBag

\* C37: after the job id or the generation has changed, a response that was
\* in flight for the previous one never becomes the data of the hook, and the
\* new job stays polled until a terminal status of its own is handled.
C37_StaleResponseIgnored ==
  [][PollingDue(ui'.poll)
       => /\ Armed(ui'.poll)
          /\ ui'.poll.data # ui.poll.data
               => /\ ui'.poll.data.job = ui'.poll.jobId
                  /\ ui'.poll.data.gen = ui'.poll.generation]_vars

----------------------------------------------------------------------------
\* Properties of the recording pipeline

\* The data the overlay's hook holds is that of a complete job with musical
\* segments or a non-empty action log
Useful(job) == job.status = "complete" /\ (job.music \/ job.actions)

\* The data is that of a failed job or of a complete job with neither
Useless(job) ==
  \/ job.status = "failed"
  \/ job.status = "complete" /\ ~job.music /\ ~job.actions

\* A saved-track check that is not cancelled delivers tracks
SavedTracksFound ==
  /\ store.phase = "empty"
  /\ store'.tracks # <<>>
  /\ LoadListed \/ LoadFetched
  /\ \E l \in BagToSet(loads) :
       l.kind = "startup" /\ l.pc = "fetch" /\ ~l.cancelled

C39_RecordingShown ==
  ui.card.voiceState = "recording" =>
    \/ ui.card.recorderState \in {"requesting", "recording"}
    \/ ui.card.recorder = "stopping"
    \/ ui.card.mic > 0

====
